---- MODULE Spec2Model ----
(***************************************************************************)
(* Model of the indicator routes of the SIP web service                    *)
(* (services/web/project/api/routes/indicator.py): single and bulk         *)
(* creation of indicators against a relational store, and the filter       *)
(* query planner of GET /indicators.                                       *)
(*                                                                         *)
(* The store is one record `db` holding every table as a sequence of rows  *)
(* in id order (a lookup row's id is its position).  A request works on a  *)
(* session: a copy of the store that also holds the rows staged with       *)
(* db.session.add; queries run against the session (the ORM flushes        *)
(* pending rows before each query), and db.session.commit makes the        *)
(* session the store.  A handler that returns an error response never      *)
(* commits, so the store keeps its value.                                  *)
(***************************************************************************)
EXTENDS Integers, Sequences, FiniteSets, TLC

VARIABLES db, before, config, request, response, txn

vars == <<db, before, config, request, response, txn>>

(***************************************************************************)
(* Bounds of the model.                                                    *)
(***************************************************************************)
MaxIndicators == 3
MaxBatch == 2

(***************************************************************************)
(* Users (project.models.User rows; the routes never write this table).    *)
(***************************************************************************)
NoKey == "<none>"
Usernames == {"alice", "carol", "bob"}
ActiveUsers == {"alice", "carol"}
ApikeyOf == [u \in Usernames |-> "key_" \o u]

\* User.query.filter_by(username=...).first(): the username, or NoKey.
UserByUsername(name) == IF name \in Usernames THEN name ELSE NoKey

\* User.query.filter_by(apikey=...).first(): the username, or NoKey.
UserByApikey(key) ==
  IF \E u \in Usernames : ApikeyOf[u] = key
    THEN CHOOSE u \in Usernames : ApikeyOf[u] = key
    ELSE NoKey

(***************************************************************************)
(* Values and their comparison.  func.lower folds letter case,             *)
(* func.binary compares the bytes.                                         *)
(***************************************************************************)
Lower(v) == CASE v = "A" -> "a" [] v = "B" -> "b" [] OTHER -> v

(***************************************************************************)
(* Generic sequence helpers.                                               *)
(***************************************************************************)
\* .first() of a filter_by(value=v) on a lookup table: the lowest id whose
\* row equals v, or 0 when there is none.
First(table, v) ==
  IF \E i \in DOMAIN table : table[i] = v
    THEN CHOOSE i \in DOMAIN table : table[i] = v /\ \A j \in DOMAIN table : table[j] = v => i <= j
    ELSE 0

(***************************************************************************)
(* error_response(status, message) and the success responses.              *)
(***************************************************************************)
error_response(status, message) == [status |-> status, message |-> message]

created(status, id) == [status |-> status, message |-> "", id |-> id]

failed(status, message) == error_response(status, message) @@ [id |-> 0]

(***************************************************************************)
(* The store.  config is the set of lookup kinds whose                     *)
(* INDICATOR_AUTO_CREATE_* switch is on.  referenced holds the ids of the   *)
(* indicators that a row of another aggregate points at by foreign key.    *)
(***************************************************************************)
Kinds == {"type", "confidence", "impact", "status", "campaign", "reference", "tag"}

EmptyStore ==
  [types |-> <<>>, confidences |-> <<>>, impacts |-> <<>>, statuses |-> <<>>,
   campaigns |-> <<>>, tags |-> <<>>, sources |-> <<>>, references |-> <<>>,
   indicators |-> <<>>, next_id |-> 1, referenced |-> {}]

\* db.session.add(row) on a lookup table, and the id the row gets.
session_add(sess, table, row) == [sess EXCEPT ![table] = Append(@, row)]

added_id(sess, table) == Len(sess[table]) + 1

\* Variant: the existence check always compares the bytes.
existing_indicator_binary(sess, type_id, value, case_sensitive) ==
  \E i \in DOMAIN sess.indicators :
    /\ sess.indicators[i].type = type_id
    /\ sess.indicators[i].value = value

\* Indicator.query.filter(Indicator.type == t, binary/lower(value) == ...).first()
existing_indicator(sess, type_id, value, case_sensitive) ==
  \E i \in DOMAIN sess.indicators :
    /\ sess.indicators[i].type = type_id
    /\ IF case_sensitive
         THEN sess.indicators[i].value = value
         ELSE Lower(sess.indicators[i].value) = Lower(value)

\* IntelReference.query.filter(reference == r, source.has(value == s)).first()
first_reference(sess, source, reference) ==
  LET hit(i) == /\ sess.references[i].reference = reference
                /\ sess.sources[sess.references[i].source] = source
  IN IF \E i \in DOMAIN sess.references : hit(i)
       THEN CHOOSE i \in DOMAIN sess.references :
              hit(i) /\ \A j \in DOMAIN sess.references : hit(j) => i <= j
       ELSE 0

(***************************************************************************)
(* POST /indicators: create_indicator.                                     *)
(***************************************************************************)

\* The lookup-or-create block repeated for every lookup kind: the row's id
\* when it exists, a staged row when its switch is on, else 404.
lookup_or_create(sess, table, value, allowed) ==
  LET found == First(sess[table], value) IN
  IF found # 0 THEN [err |-> 0, id |-> found, sess |-> sess]
  ELSE IF allowed
    THEN [err |-> 0, id |-> added_id(sess, table), sess |-> session_add(sess, table, value)]
    ELSE [err |-> 404, id |-> 0, sess |-> sess]

\* The default taken from the highest id instead of the lowest.
lookup_or_default_last(sess, data, field, table, allowed) ==
  IF field \notin data.keys
    THEN IF sess[table] = <<>>
           THEN [err |-> 400, id |-> 0, sess |-> sess]
           ELSE [err |-> 0, id |-> Len(sess[table]), sess |-> sess]
    ELSE lookup_or_create(sess, table, data[field], allowed)

\* confidence, impact and status: the default (lowest id) when the key is
\* absent, else lookup-or-create.
lookup_or_default(sess, data, field, table, allowed) ==
  IF field \notin data.keys
    THEN IF sess[table] = <<>>
           THEN [err |-> 400, id |-> 0, sess |-> sess]
           ELSE [err |-> 0, id |-> 1, sess |-> sess]
    ELSE lookup_or_create(sess, table, data[field], allowed)

\* The user named by the request: username first, else the API key.
verify_user(data, apikey) ==
  IF "username" \in data.keys
    THEN IF UserByUsername(data.username) = NoKey
           THEN [err |-> 404, user |-> NoKey]
           ELSE [err |-> 0, user |-> UserByUsername(data.username)]
    ELSE IF apikey # NoKey
           THEN IF UserByApikey(apikey) = NoKey
                  THEN [err |-> 404, user |-> NoKey]
                  ELSE [err |-> 0, user |-> UserByApikey(apikey)]
           ELSE [err |-> 401, user |-> NoKey]

\* for value in data['campaigns'] / data['tags']: lookup-or-create, append.
RECURSIVE attach_values(_, _, _, _, _)
attach_values(sess, table, values, allowed, acc) ==
  IF values = <<>> THEN [err |-> 0, sess |-> sess, ids |-> acc]
  ELSE LET r == lookup_or_create(sess, table, Head(values), allowed) IN
       IF r.err # 0 THEN [err |-> r.err, sess |-> sess, ids |-> acc]
       ELSE attach_values(r.sess, table, Tail(values), allowed, Append(acc, r.id))

\* for item in data['references']: find the (reference, source) pair, or
\* stage it (and its source when missing) when the switch is on.
RECURSIVE attach_references(_, _, _, _, _)
attach_references(sess, items, allowed, user, acc) ==
  IF items = <<>> THEN [err |-> 0, sess |-> sess, ids |-> acc]
  ELSE LET item == Head(items)
           found == first_reference(sess, item.source, item.reference)
       IN IF found # 0
            THEN attach_references(sess, Tail(items), allowed, user, Append(acc, found))
          ELSE IF allowed
            THEN LET s == lookup_or_create(sess, "sources", item.source, TRUE)
                     row == [reference |-> item.reference, source |-> s.id, user |-> user]
                 IN attach_references(session_add(s.sess, "references", row), Tail(items),
                                      allowed, user, Append(acc, added_id(s.sess, "references")))
          ELSE [err |-> 404, sess |-> sess, ids |-> acc]

\* Indicator(...): the new row; got holds the entities resolved for it.
new_indicator(sess, data, user, got) ==
  [id |-> sess.next_id, type |-> got.type, value |-> data.value,
   case_sensitive |-> got.case_sensitive,
   substring |-> IF "substring" \in data.keys THEN data.substring ELSE FALSE,
   confidence |-> got.confidence, impact |-> got.impact, status |-> got.status,
   user |-> user,
   created_time |-> sess.next_id, modified_time |-> sess.next_id,
   campaigns |-> got.campaigns, references |-> got.references, tags |-> got.tags]

\* db.session.add(indicator)
add_indicator(sess, row) ==
  [sess EXCEPT !.indicators = Append(@, row), !.next_id = @ + 1]

list_of(data, field) == IF field \in data.keys THEN data[field] ELSE <<>>

\* Variant: an absent case_sensitive key is taken as true.
case_sensitive_of_default_true(data) ==
  IF "case_sensitive" \in data.keys THEN data.case_sensitive ELSE TRUE

case_sensitive_of(data) ==
  IF "case_sensitive" \in data.keys THEN data.case_sensitive ELSE FALSE

NothingYet ==
  [type |-> 0, case_sensitive |-> FALSE, confidence |-> 0, impact |-> 0, status |-> 0,
   campaigns |-> <<>>, references |-> <<>>, tags |-> <<>>]

\* The handler, block by block; each block gets the result of the lookup
\* before it, and d is the store the request started from.  The result is
\* [resp, db], db being the store after the request.
create_indicator_tags(d, data, user, got, ta) ==
  IF ta.err # 0 THEN [resp |-> failed(404, "tag"), db |-> d]
  ELSE [resp |-> created(201, ta.sess.next_id),
        db |-> add_indicator(ta.sess,
                 new_indicator(ta.sess, data, user, [got EXCEPT !.tags = ta.ids]))]

create_indicator_references(d, cfg, data, user, got, re) ==
  IF re.err # 0 THEN [resp |-> failed(404, "reference"), db |-> d]
  ELSE create_indicator_tags(d, data, user, [got EXCEPT !.references = re.ids],
         attach_values(re.sess, "tags", list_of(data, "tags"), "tag" \in cfg, <<>>))

create_indicator_campaigns(d, cfg, data, user, got, ca) ==
  IF ca.err # 0 THEN [resp |-> failed(404, "campaign"), db |-> d]
  ELSE create_indicator_references(d, cfg, data, user, [got EXCEPT !.campaigns = ca.ids],
         attach_references(ca.sess, list_of(data, "references"), "reference" \in cfg,
                           user, <<>>))

create_indicator_status(d, cfg, data, user, got, s) ==
  IF s.err # 0 THEN [resp |-> failed(s.err, "status"), db |-> d]
  ELSE create_indicator_campaigns(d, cfg, data, user, [got EXCEPT !.status = s.id],
         attach_values(s.sess, "campaigns", list_of(data, "campaigns"),
                       "campaign" \in cfg, <<>>))

create_indicator_impact(d, cfg, data, user, got, i) ==
  IF i.err # 0 THEN [resp |-> failed(i.err, "impact"), db |-> d]
  ELSE create_indicator_status(d, cfg, data, user, [got EXCEPT !.impact = i.id],
         lookup_or_default(i.sess, data, "status", "statuses", "status" \in cfg))

create_indicator_confidence(d, cfg, data, user, got, c) ==
  IF c.err # 0 THEN [resp |-> failed(c.err, "confidence"), db |-> d]
  ELSE create_indicator_impact(d, cfg, data, user, [got EXCEPT !.confidence = c.id],
         lookup_or_default(c.sess, data, "impact", "impacts", "impact" \in cfg))

create_indicator_type(d, cfg, data, user, t) ==
  IF t.err # 0 THEN [resp |-> failed(404, "type"), db |-> d]
  ELSE IF existing_indicator(t.sess, t.id, data.value, case_sensitive_of(data))
    THEN [resp |-> failed(409, "indicator already exists"), db |-> d]
  ELSE create_indicator_confidence(d, cfg, data, user,
         [NothingYet EXCEPT !.type = t.id, !.case_sensitive = case_sensitive_of(data)],
         lookup_or_default(t.sess, data, "confidence", "confidences", "confidence" \in cfg))

create_indicator_user(d, cfg, data, u) ==
  IF u.err # 0 THEN [resp |-> failed(u.err, "user"), db |-> d]
  ELSE IF u.user \notin ActiveUsers THEN [resp |-> failed(401, "inactive user"), db |-> d]
  ELSE create_indicator_type(d, cfg, data, u.user,
         lookup_or_create(d, "types", data.type, "type" \in cfg))

create_indicator(d, cfg, data, apikey) ==
  create_indicator_user(d, cfg, data, verify_user(data, apikey))

(***************************************************************************)
(* POST /indicators/bulk: create_indicators.  st is the pair of the        *)
(* session and the per-call cache; the cache maps a key to the entity      *)
(* found or staged for it.                                                 *)
(***************************************************************************)
EmptyCache ==
  [usernames |-> <<>>, apikeys |-> <<>>, types |-> <<>>,
   confidences |-> <<>>, default_confidence |-> 0,
   impacts |-> <<>>, default_impact |-> 0,
   statuses |-> <<>>, default_status |-> 0,
   campaigns |-> <<>>, references |-> <<>>, sources |-> <<>>, tags |-> <<>>]

\* cache[slot][key] = entity
cache_put(cache, slot, key, entity) == [cache EXCEPT ![slot] = (key :> entity) @@ @]

\* '{}{}'.format(item['source'], item['reference'])
reference_key(item) == item.source \o item.reference

\* The user of one bulk item, through cache['usernames'] / cache['apikeys'].
cached_verify_user(cache, data, apikey) ==
  IF "username" \in data.keys
    THEN IF data.username \in DOMAIN cache.usernames
           THEN [err |-> 0, user |-> cache.usernames[data.username], cache |-> cache]
         ELSE IF UserByUsername(data.username) = NoKey
           THEN [err |-> 404, user |-> NoKey, cache |-> cache]
         ELSE [err |-> 0, user |-> UserByUsername(data.username),
               cache |-> cache_put(cache, "usernames", data.username,
                                   UserByUsername(data.username))]
    ELSE IF apikey # NoKey
           THEN IF apikey \in DOMAIN cache.apikeys
                  THEN [err |-> 0, user |-> cache.apikeys[apikey], cache |-> cache]
                ELSE IF UserByApikey(apikey) = NoKey
                  THEN [err |-> 404, user |-> NoKey, cache |-> cache]
                ELSE [err |-> 0, user |-> UserByApikey(apikey),
                      cache |-> cache_put(cache, "apikeys", apikey, UserByApikey(apikey))]
           ELSE [err |-> 401, user |-> NoKey, cache |-> cache]

\* The cached lookup-or-create block of every lookup kind.
cached_lookup_or_create(st, slot, table, value, allowed) ==
  IF value \in DOMAIN st.cache[slot]
    THEN [err |-> 0, id |-> st.cache[slot][value], st |-> st]
    ELSE LET r == lookup_or_create(st.sess, table, value, allowed) IN
         IF r.err # 0 THEN [err |-> r.err, id |-> 0, st |-> st]
         ELSE [err |-> 0, id |-> r.id,
               st |-> [sess |-> r.sess, cache |-> cache_put(st.cache, slot, value, r.id)]]

\* confidence, impact and status of a bulk item, with the cached default.
cached_lookup_or_default(st, data, field, slot, default_slot, table, allowed) ==
  IF field \notin data.keys
    THEN IF st.cache[default_slot] # 0
           THEN [err |-> 0, id |-> st.cache[default_slot], st |-> st]
         ELSE IF st.sess[table] = <<>>
           THEN [err |-> 400, id |-> 0, st |-> st]
         ELSE [err |-> 0, id |-> 1,
               st |-> [st EXCEPT !.cache = [@ EXCEPT ![default_slot] = 1]]]
    ELSE cached_lookup_or_create(st, slot, table, data[field], allowed)

RECURSIVE cached_attach_values(_, _, _, _, _, _)
cached_attach_values(st, slot, table, values, allowed, acc) ==
  IF values = <<>> THEN [err |-> 0, st |-> st, ids |-> acc]
  ELSE LET r == cached_lookup_or_create(st, slot, table, Head(values), allowed) IN
       IF r.err # 0 THEN [err |-> r.err, st |-> st, ids |-> acc]
       ELSE cached_attach_values(r.st, slot, table, Tail(values), allowed, Append(acc, r.id))

RECURSIVE cached_attach_references(_, _, _, _, _)
cached_attach_references(st, items, allowed, user, acc) ==
  IF items = <<>> THEN [err |-> 0, st |-> st, ids |-> acc]
  ELSE LET item == Head(items)
           key == reference_key(item)
       IN
       IF key \in DOMAIN st.cache.references
         THEN cached_attach_references(st, Tail(items), allowed, user,
                                       Append(acc, st.cache.references[key]))
       ELSE LET found == first_reference(st.sess, item.source, item.reference) IN
       IF found # 0
         THEN cached_attach_references(
                [st EXCEPT !.cache = cache_put(@, "references", key, found)],
                Tail(items), allowed, user, Append(acc, found))
       ELSE IF allowed
         THEN LET s == cached_lookup_or_create(st, "sources", "sources", item.source, TRUE)
                  row == [reference |-> item.reference, source |-> s.id, user |-> user]
                  rid == added_id(s.st.sess, "references")
              IN cached_attach_references(
                   [sess |-> session_add(s.st.sess, "references", row),
                    cache |-> cache_put(s.st.cache, "references", key, rid)],
                   Tail(items), allowed, user, Append(acc, rid))
       ELSE [err |-> 404, st |-> st, ids |-> acc]

\* One iteration of `for data in request.get_json()['indicators']`, block
\* by block: err # 0 is the early return; otherwise st is the state carried
\* on (the session as it was when the item was skipped as a duplicate).
create_indicators_tags(st, data, user, got, ta) ==
  IF ta.err # 0 THEN [err |-> 404, message |-> "tag", st |-> st]
  ELSE [err |-> 0, message |-> "added",
        st |-> [ta.st EXCEPT !.sess =
                  add_indicator(@, new_indicator(@, data, user, [got EXCEPT !.tags = ta.ids]))]]

create_indicators_references(st, cfg, data, user, got, re) ==
  IF re.err # 0 THEN [err |-> 404, message |-> "reference", st |-> st]
  ELSE create_indicators_tags(st, data, user, [got EXCEPT !.references = re.ids],
         cached_attach_values(re.st, "tags", "tags", list_of(data, "tags"),
                              "tag" \in cfg, <<>>))

create_indicators_campaigns(st, cfg, data, user, got, ca) ==
  IF ca.err # 0 THEN [err |-> 404, message |-> "campaign", st |-> st]
  ELSE create_indicators_references(st, cfg, data, user, [got EXCEPT !.campaigns = ca.ids],
         cached_attach_references(ca.st, list_of(data, "references"), "reference" \in cfg,
                                  user, <<>>))

create_indicators_status(st, cfg, data, user, got, s) ==
  IF s.err # 0 THEN [err |-> s.err, message |-> "status", st |-> st]
  ELSE create_indicators_campaigns(st, cfg, data, user, [got EXCEPT !.status = s.id],
         cached_attach_values(s.st, "campaigns", "campaigns", list_of(data, "campaigns"),
                              "campaign" \in cfg, <<>>))

create_indicators_impact(st, cfg, data, user, got, i) ==
  IF i.err # 0 THEN [err |-> i.err, message |-> "impact", st |-> st]
  ELSE create_indicators_status(st, cfg, data, user, [got EXCEPT !.impact = i.id],
         cached_lookup_or_default(i.st, data, "status", "statuses", "default_status",
                                  "statuses", "status" \in cfg))

create_indicators_confidence(st, cfg, data, user, got, c) ==
  IF c.err # 0 THEN [err |-> c.err, message |-> "confidence", st |-> st]
  ELSE create_indicators_impact(st, cfg, data, user, [got EXCEPT !.confidence = c.id],
         cached_lookup_or_default(c.st, data, "impact", "impacts", "default_impact",
                                  "impacts", "impact" \in cfg))

create_indicators_type(st, cfg, data, user, t) ==
  IF t.err # 0 THEN [err |-> 404, message |-> "type", st |-> st]
  ELSE IF existing_indicator(t.st.sess, t.id, data.value, case_sensitive_of(data))
    THEN [err |-> 0, message |-> "skipped", st |-> t.st]
  ELSE create_indicators_confidence(st, cfg, data, user,
         [NothingYet EXCEPT !.type = t.id, !.case_sensitive = case_sensitive_of(data)],
         cached_lookup_or_default(t.st, data, "confidence", "confidences",
                                  "default_confidence", "confidences", "confidence" \in cfg))

create_indicators_user(st, cfg, data, u) ==
  IF u.err # 0 THEN [err |-> u.err, message |-> "user", st |-> st]
  ELSE IF u.user \notin ActiveUsers THEN [err |-> 401, message |-> "inactive user", st |-> st]
  ELSE create_indicators_type(st, cfg, data, u.user,
         cached_lookup_or_create([st EXCEPT !.cache = u.cache], "types", "types",
                                 data.type, "type" \in cfg))

create_indicators_item(st, cfg, data, apikey) ==
  create_indicators_user(st, cfg, data, cached_verify_user(st.cache, data, apikey))

RECURSIVE create_indicators_loop(_, _, _, _)
create_indicators_loop(st, cfg, items, apikey) ==
  IF items = <<>> THEN [err |-> 0, message |-> "", st |-> st]
  ELSE LET r == create_indicators_item(st, cfg, Head(items), apikey) IN
       IF r.err # 0 THEN r
       ELSE create_indicators_loop(r.st, cfg, Tail(items), apikey)

\* Variant: an early return keeps what the earlier items staged.
create_indicators_partial(d, cfg, items, apikey) ==
  LET r == create_indicators_loop([sess |-> d, cache |-> EmptyCache], cfg, items, apikey) IN
  IF r.err # 0 THEN [resp |-> failed(r.err, r.message), db |-> r.st.sess]
  ELSE [resp |-> created(204, 0), db |-> r.st.sess]

\* The handler: one commit after the loop, none on an early return.
create_indicators(d, cfg, items, apikey) ==
  LET r == create_indicators_loop([sess |-> d, cache |-> EmptyCache], cfg, items, apikey) IN
  IF r.err # 0 THEN [resp |-> failed(r.err, r.message), db |-> d]
  ELSE [resp |-> created(204, 0), db |-> r.st.sess]

(***************************************************************************)
(* GET /indicators: read_indicators, the filter query planner.             *)
(*                                                                         *)
(* A query-string value is a sequence of tokens: names, the separator ","  *)
(* and the marker "[OR]".  Text is the string the tokens spell.            *)
(***************************************************************************)
RECURSIVE Text(_)
Text(tokens) == IF tokens = <<>> THEN "" ELSE Head(tokens) \o Text(Tail(tokens))

\* '[OR]' in request_value
has_marker(tokens) == \E i \in DOMAIN tokens : tokens[i] = "[OR]"

\* request_value.replace('[OR]', '')
IsNotMarker(t) == t # "[OR]"

strip_marker(tokens) == SelectSeq(tokens, IsNotMarker)

\* request_value.split(','): the pieces between separators, empty ones kept.
RECURSIVE split_from(_, _, _)
split_from(tokens, piece, acc) ==
  IF tokens = <<>> THEN Append(acc, piece)
  ELSE IF Head(tokens) = "," THEN split_from(Tail(tokens), "", Append(acc, piece))
  ELSE split_from(Tail(tokens), piece \o Head(tokens), acc)

split(tokens) == split_from(tokens, "", <<>>)

\* parse_boolean(value, default=None)
parse_boolean(text) ==
  CASE text = "true" -> "true" [] text = "false" -> "false" [] OTHER -> "null"

\* dateutil.parser.parse: the time a text denotes, or a ValueError.
parse(text) ==
  CASE text = "0" -> [ok |-> TRUE, time |-> 0]
    [] text = "1" -> [ok |-> TRUE, time |-> 1]
    [] text = "2" -> [ok |-> TRUE, time |-> 2]
    [] text = "3" -> [ok |-> TRUE, time |-> 3]
    [] OTHER -> [ok |-> FALSE, time |-> 0]

\* datetime.date.max and datetime.date.min, on the scale of the timestamps.
DateMax == 9999
DateMin == 0

\* A WHERE or HAVING clause.
Clause(op, col, value, values, time) ==
  [op |-> op, col |-> col, value |-> value, values |-> values, time |-> time]

\* The state the handler threads through its blocks.
InitialPlan ==
  [join |-> <<[table |-> "Indicator", outer |-> FALSE],
              [table |-> "IndicatorType", outer |-> FALSE]>>,
   already_joined |-> {"IndicatorType"}, already_outerjoined |-> {},
   filters |-> <<>>, having |-> <<>>, groupby |-> FALSE]

\* if X not in already_joined: join = db.join(join, X); already_joined.add(X)
join_once(p, table) ==
  IF table \in p.already_joined THEN p
  ELSE [p EXCEPT !.join = Append(@, [table |-> table, outer |-> FALSE]),
                 !.already_joined = @ \cup {table}]

\* if X not in already_outerjoined: join = db.outerjoin(join, X); ...add(X)
outerjoin_once(p, table) ==
  IF table \in p.already_outerjoined THEN p
  ELSE [p EXCEPT !.join = Append(@, [table |-> table, outer |-> TRUE]),
                 !.already_outerjoined = @ \cup {table}]

where(p, clause) == [p EXCEPT !.filters = Append(@, clause)]

\* The exclusion list that compares with its first value only.
where_each_first(p, op, col, values) ==
  IF values = <<>> THEN p ELSE where(p, Clause(op, col, Head(values), <<>>, 0))

RECURSIVE where_each(_, _, _, _)
where_each(p, op, col, values) ==
  IF values = <<>> THEN p
  ELSE where_each(where(p, Clause(op, col, Head(values), <<>>, 0)), op, col, Tail(values))

grouped(p) == [p EXCEPT !.groupby = TRUE]

join_references(p) ==
  join_once(join_once(p, "indicator_reference_association"), "IntelReference")

\* The inclusion list with every list read as an OR list.
list_clause_any(p, col, tokens) ==
  IF Len(split(strip_marker(tokens))) = 1
    THEN where(p, Clause("eq", col, split(strip_marker(tokens))[1], <<>>, 0))
    ELSE where(p, Clause("or", col, "", split(strip_marker(tokens)), 0))

\* The inclusion-list part shared by sources, tags and users: one equality,
\* a HAVING of sums for an AND list, an OR of equalities for an OR list.
list_clause(p, col, tokens) ==
  IF Len(split(strip_marker(tokens))) = 1
    THEN where(p, Clause("eq", col, split(strip_marker(tokens))[1], <<>>, 0))
  ELSE IF has_marker(tokens)
    THEN where(p, Clause("or", col, "", split(strip_marker(tokens)), 0))
  ELSE [p EXCEPT !.having = Append(@, Clause("sum", col, "", split(tokens), 0))]

\* The recognized filter keys, in the order their blocks run.
FilterOrder ==
  <<"case_sensitive", "confidence", "created_after", "created_before", "exact_value",
    "impact", "modified_after", "modified_before", "no_campaigns", "no_references",
    "no_tags", "not_sources", "not_tags", "not_users", "reference", "sources", "status",
    "substring", "tags", "type", "types", "user", "users", "value">>

\* A clause comparing a column with one value.
compare(op, col, value) == Clause(op, col, value, <<>>, 0)

\* The filter with no fallback: a text that is no date reads as time 0.
timed_unguarded(op, col, v, sentinel) ==
  Clause(op, col, "", <<>>, parse(Text(v)).time)

\* try: parse(value) except (ValueError, OverflowError): the sentinel date.
timed(op, col, v, sentinel) ==
  Clause(op, col, "", <<>>, IF parse(Text(v)).ok THEN parse(Text(v)).time ELSE sentinel)

\* The block of read_indicators for one key: its joins, its grouping and
\* its WHERE or HAVING clauses.
apply_filter(name, p, v) ==
  CASE name = "case_sensitive" ->
         where(p, compare("is", "Indicator.case_sensitive", parse_boolean(Text(v))))
    [] name = "confidence" ->
         where(join_once(p, "IndicatorConfidence"),
               compare("eq", "IndicatorConfidence.value", Text(v)))
    [] name = "created_after" ->
         where(p, timed("after", "Indicator.created_time", v, DateMax))
    [] name = "created_before" ->
         where(p, timed("before", "Indicator.created_time", v, DateMin))
    [] name = "exact_value" ->
         where(p, compare("eq", "Indicator.value", Text(v)))
    [] name = "impact" ->
         where(join_once(p, "IndicatorImpact"),
               compare("eq", "IndicatorImpact.value", Text(v)))
    [] name = "modified_after" ->
         where(p, timed("after", "Indicator.modified_time", v, DateMax))
    [] name = "modified_before" ->
         where(p, timed("before", "Indicator.modified_time", v, DateMin))
    [] name = "no_campaigns" ->
         where(outerjoin_once(p, "indicator_campaign_association"),
               compare("not_any", "campaigns", ""))
    [] name = "no_references" ->
         where(outerjoin_once(p, "indicator_reference_association"),
               compare("not_any", "references", ""))
    [] name = "no_tags" ->
         where(outerjoin_once(p, "indicator_tag_association"),
               compare("not_any", "tags", ""))
    [] name = "not_sources" ->
         where_each(grouped(join_once(join_references(p), "IntelSource")),
                    "ne", "IntelSource.value", split(v))
    [] name = "not_tags" ->
         where_each(grouped(outerjoin_once(p, "indicator_tag_association")),
                    "not_any_value", "tags", split(v))
    [] name = "not_users" ->
         where_each(grouped(join_once(join_references(p), "User")),
                    "ne", "User.username", split(v))
    [] name = "reference" ->
         where(grouped(join_once(p, "indicator_reference_association")),
               compare("any_reference", "references", Text(v)))
    [] name = "sources" ->
         list_clause(grouped(join_once(join_references(p), "IntelSource")),
                     "IntelSource.value", v)
    [] name = "status" ->
         where(join_once(p, "IndicatorStatus"),
               compare("eq", "IndicatorStatus.value", Text(v)))
    [] name = "substring" ->
         where(p, compare("is", "Indicator.substring", parse_boolean(Text(v))))
    [] name = "tags" ->
         list_clause(grouped(join_once(join_once(p, "indicator_tag_association"), "Tag")),
                     "Tag.value", v)
    [] name = "type" ->
         where(p, compare("eq", "IndicatorType.value", Text(v)))
    [] name = "types" ->
         IF Len(split(v)) = 1
           THEN where(p, compare("eq", "IndicatorType.value", split(v)[1]))
           ELSE where(p, Clause("or", "IndicatorType.value", "", split(v), 0))
    [] name = "user" ->
         where(grouped(join_once(join_references(p), "User")),
               compare("eq", "User.username", Text(v)))
    [] name = "users" ->
         list_clause(grouped(join_once(join_references(p), "User")),
                     "User.username", v)
    [] name = "value" ->
         where(p, compare("like", "Indicator.value", Text(v)))

\* The chain of `if '<key>' in request.args:` blocks.
RECURSIVE build_plan(_, _, _)
build_plan(names, p, args) ==
  IF names = <<>> THEN p
  ELSE IF Head(names) \in DOMAIN args
    THEN build_plan(Tail(names), apply_filter(Head(names), p, args[Head(names)]), args)
    ELSE build_plan(Tail(names), p, args)

\* The plan of a handler that rejects what it does not know: a key outside
\* the chain adds a clause no indicator satisfies.
plan_of_every_key(args) ==
  IF DOMAIN args \subseteq {FilterOrder[k] : k \in DOMAIN FilterOrder} \cup {"count"}
    THEN build_plan(FilterOrder, InitialPlan, args)
    ELSE where(build_plan(FilterOrder, InitialPlan, args),
               compare("eq", "Indicator.value", "<unknown key>"))

plan_of(args) == build_plan(FilterOrder, InitialPlan, args)

(***************************************************************************)
(* db.session.execute(query): the rows of the FROM clause, WHERE, GROUP BY *)
(* Indicator.id, HAVING and ORDER BY Indicator.id.                         *)
(*                                                                         *)
(* A joined row names an indicator and, per association table, the link   *)
(* it was joined with: the position of the link in the indicator's list,  *)
(* or 0 for the NULL row of an outer join and for a table not joined.      *)
(***************************************************************************)
Null == "<null>"

tables_of(join) == {join[i].table : i \in DOMAIN join}

\* MySQL error 1066: the same table twice in one FROM clause, no alias.
not_unique_table(join) ==
  \E i, j \in DOMAIN join : i # j /\ join[i].table = join[j].table

is_outer(join, table) == \E i \in DOMAIN join : join[i].table = table /\ join[i].outer

\* The links of an association table with every join read as an inner join.
links_inner(join, table, list) ==
  IF table \notin tables_of(join) THEN {0} ELSE DOMAIN list

\* The links an association table contributes for one indicator.
links(join, table, list) ==
  IF table \notin tables_of(join) THEN {0}
  ELSE IF is_outer(join, table) /\ list = <<>> THEN {0}
  ELSE DOMAIN list

\* An inner join of an entity table drops the rows whose link is NULL.
entity_joined(join, table, link) == table \in tables_of(join) => link # 0

from_rows(d, join) ==
  {row \in UNION {[ind : {i},
                   camp : links(join, "indicator_campaign_association", d.indicators[i].campaigns),
                   ref : links(join, "indicator_reference_association", d.indicators[i].references),
                   tag : links(join, "indicator_tag_association", d.indicators[i].tags)]
                  : i \in DOMAIN d.indicators} :
     /\ entity_joined(join, "IntelReference", row.ref)
     /\ entity_joined(join, "IntelSource", row.ref)
     /\ entity_joined(join, "User", row.ref)
     /\ entity_joined(join, "Tag", row.tag)}

reference_of(d, row) == d.references[d.indicators[row.ind].references[row.ref]]

\* The value of a column in a joined row.
column(d, row, col) ==
  CASE col = "Indicator.value" -> d.indicators[row.ind].value
    [] col = "IndicatorType.value" -> d.types[d.indicators[row.ind].type]
    [] col = "IndicatorConfidence.value" -> d.confidences[d.indicators[row.ind].confidence]
    [] col = "IndicatorImpact.value" -> d.impacts[d.indicators[row.ind].impact]
    [] col = "IndicatorStatus.value" -> d.statuses[d.indicators[row.ind].status]
    [] col = "IntelSource.value" ->
         IF row.ref = 0 THEN Null ELSE d.sources[reference_of(d, row).source]
    [] col = "User.username" ->
         IF row.ref = 0 THEN Null ELSE reference_of(d, row).user
    [] col = "Tag.value" ->
         IF row.tag = 0 THEN Null ELSE d.tags[d.indicators[row.ind].tags[row.tag]]

flag(d, row, col) ==
  IF col = "Indicator.case_sensitive" THEN d.indicators[row.ind].case_sensitive
  ELSE d.indicators[row.ind].substring

time_of(d, row, col) ==
  IF col = "Indicator.created_time" THEN d.indicators[row.ind].created_time
  ELSE d.indicators[row.ind].modified_time

\* The related rows with every relation read as the tags.
related_tags(d, row, rel) == d.indicators[row.ind].tags

related(d, row, rel) ==
  CASE rel = "campaigns" -> d.indicators[row.ind].campaigns
    [] rel = "references" -> d.indicators[row.ind].references
    [] rel = "tags" -> d.indicators[row.ind].tags

\* LIKE '%needle%' over the one-character values of the model.
like(hay, needle) == needle = "" \/ hay = needle

\* One WHERE clause on one joined row; a comparison with NULL is not true.
holds(d, row, c) ==
  CASE c.op = "is" ->
         \/ c.value = "true" /\ flag(d, row, c.col)
         \/ c.value = "false" /\ ~flag(d, row, c.col)
    [] c.op = "eq" -> column(d, row, c.col) # Null /\ column(d, row, c.col) = c.value
    [] c.op = "ne" -> column(d, row, c.col) # Null /\ column(d, row, c.col) # c.value
    [] c.op = "or" ->
         /\ column(d, row, c.col) # Null
         /\ \E k \in DOMAIN c.values : column(d, row, c.col) = c.values[k]
    [] c.op = "after" -> c.time < time_of(d, row, c.col)
    [] c.op = "before" -> time_of(d, row, c.col) < c.time
    [] c.op = "like" -> like(column(d, row, c.col), c.value)
    [] c.op = "not_any" -> related(d, row, c.col) = <<>>
    [] c.op = "not_any_value" ->
         ~\E k \in DOMAIN d.indicators[row.ind].tags :
            d.tags[d.indicators[row.ind].tags[k]] = c.value
    [] c.op = "any_reference" ->
         \E k \in DOMAIN d.indicators[row.ind].references :
            d.references[d.indicators[row.ind].references[k]].reference = c.value

where_rows(d, p) ==
  {row \in from_rows(d, p.join) : \A k \in DOMAIN p.filters : holds(d, row, p.filters[k])}

\* and_(func.sum(col == v) > 0, ...) over the rows of one group.
having_holds(d, group, c) ==
  \A k \in DOMAIN c.values :
    \E row \in group : column(d, row, c.col) # Null /\ column(d, row, c.col) = c.values[k]

group_of(rows, i) == {row \in rows : row.ind = i}

\* How many result rows the indicator at position i contributes.
result_rows(d, p, rows, i) ==
  IF p.groupby
    THEN IF /\ group_of(rows, i) # {}
            /\ \A k \in DOMAIN p.having : having_holds(d, group_of(rows, i), p.having[k])
           THEN 1 ELSE 0
    ELSE Cardinality(group_of(rows, i))

repeat(x, n) == [k \in 1..n |-> x]

result_of(d, i) ==
  [id |-> d.indicators[i].id, type |-> d.types[d.indicators[i].type],
   value |-> d.indicators[i].value]

\* .order_by(Indicator.id): the indicators are stored in id order.
RECURSIVE fetchall(_, _, _, _)
fetchall(d, p, rows, i) ==
  IF i > Len(d.indicators) THEN <<>>
  ELSE repeat(result_of(d, i), result_rows(d, p, rows, i)) \o fetchall(d, p, rows, i + 1)

RECURSIVE count_rows(_, _, _, _)
count_rows(d, p, rows, i) ==
  IF i > Len(d.indicators) THEN 0
  ELSE result_rows(d, p, rows, i) + count_rows(d, p, rows, i + 1)

counted(n) == [status |-> 200, encoding |-> "identity", count |-> n, data |-> <<>>]

listed(data) == [status |-> 200, encoding |-> "gzip", count |-> 0, data |-> data]

\* The database rejects the statement; nothing in the handler catches it.
sql_error == [status |-> 500, encoding |-> "identity", count |-> 0, data |-> <<>>]

execute(d, p, count) ==
  IF not_unique_table(p.join) THEN sql_error
  ELSE IF count THEN counted(count_rows(d, p, where_rows(d, p), 1))
  ELSE listed(fetchall(d, p, where_rows(d, p), 1))

read_indicators(d, args) == execute(d, plan_of(args), "count" \in DOMAIN args)

(***************************************************************************)
(* PUT /indicators/<id>: update_indicator.  The blocks do not depend on    *)
(* one another: each resolves the values of its own key against the store. *)
(***************************************************************************)
\* Indicator.query.get(indicator_id): the position of the row, or 0.
get_indicator(d, id) ==
  IF \E i \in DOMAIN d.indicators : d.indicators[i].id = id
    THEN CHOOSE i \in DOMAIN d.indicators : d.indicators[i].id = id
    ELSE 0

\* The entity each listed value resolves to, 0 standing for None.
resolve_values(table, values) == [k \in DOMAIN values |-> First(table, values[k])]

resolve_references(d, items) ==
  [k \in DOMAIN items |-> first_reference(d, items[k].source, items[k].reference)]

has_none(ids) == \E k \in DOMAIN ids : ids[k] = 0

\* valid_campaigns or valid_tags holds a None (the block builds an error
\* response for the unknown value but does not return it) and is assigned:
\* the unit of work cannot flush a None found in a collection, so the next
\* query (autoflush) or db.session.commit() raises.
flush_error(d, data, field) ==
  field \in data.keys /\ has_none(resolve_values(d[field], data[field]))

\* The status the handler fails with, in the order of its blocks, or 0.
update_error(d, data) ==
  IF flush_error(d, data, "campaigns") THEN 500
  ELSE IF "confidence" \in data.keys /\ First(d.confidences, data.confidence) = 0 THEN 404
  ELSE IF "impact" \in data.keys /\ First(d.impacts, data.impact) = 0 THEN 404
  ELSE IF "references" \in data.keys /\ has_none(resolve_references(d, data.references))
    THEN 404
  ELSE IF "status" \in data.keys /\ First(d.statuses, data.status) = 0 THEN 404
  ELSE IF flush_error(d, data, "tags") THEN 500
  ELSE IF "username" \in data.keys /\ UserByUsername(data.username) = NoKey THEN 404
  ELSE IF "username" \in data.keys /\ data.username \notin ActiveUsers THEN 401
  ELSE 0

\* The assignment of a full replacement: an absent key empties the relation.
assigned_or_cleared(data, field, ids, old) ==
  IF field \in data.keys /\ ids # <<>> THEN ids ELSE <<>>

\* The assignment with no test of the list: an empty list empties the relation.
assigned_always(data, field, ids, old) ==
  IF field \in data.keys THEN ids ELSE old

\* `if valid_x: indicator.x = valid_x`: an empty list assigns nothing.
assigned(data, field, ids, old) ==
  IF field \in data.keys /\ ids # <<>> THEN ids ELSE old

\* The row with every present key assigned.
updated_row(d, row, data) ==
  [row EXCEPT
     !.campaigns = assigned(data, "campaigns",
                            resolve_values(d.campaigns, list_of(data, "campaigns")), @),
     !.case_sensitive = IF "case_sensitive" \in data.keys THEN data.case_sensitive ELSE @,
     !.confidence = IF "confidence" \in data.keys THEN First(d.confidences, data.confidence) ELSE @,
     !.impact = IF "impact" \in data.keys THEN First(d.impacts, data.impact) ELSE @,
     !.references = assigned(data, "references",
                             resolve_references(d, list_of(data, "references")), @),
     !.status = IF "status" \in data.keys THEN First(d.statuses, data.status) ELSE @,
     !.substring = IF "substring" \in data.keys THEN data.substring ELSE @,
     !.tags = assigned(data, "tags", resolve_values(d.tags, list_of(data, "tags")), @),
     !.user = IF "username" \in data.keys THEN UserByUsername(data.username) ELSE @]

\* modified_time is set when the row is changed.
touched(d, row, new) == IF new = row THEN row ELSE [new EXCEPT !.modified_time = d.next_id]

\* The update whose flag assignments outlive a failed request.
update_indicator_flushed(d, id, data) ==
  IF get_indicator(d, id) = 0 THEN [resp |-> failed(404, "indicator"), db |-> d]
  ELSE IF update_error(d, data) # 0
    THEN [resp |-> failed(update_error(d, data), "update"),
          db |-> [d EXCEPT !.indicators[get_indicator(d, id)].case_sensitive =
                    IF "case_sensitive" \in data.keys THEN data.case_sensitive ELSE @]]
  ELSE [resp |-> created(200, id),
        db |-> [d EXCEPT !.indicators[get_indicator(d, id)] =
                  touched(d, @, updated_row(d, @, data))]]

update_indicator(d, id, data) ==
  IF get_indicator(d, id) = 0 THEN [resp |-> failed(404, "indicator"), db |-> d]
  ELSE IF update_error(d, data) # 0
    THEN [resp |-> failed(update_error(d, data), "update"), db |-> d]
  ELSE [resp |-> created(200, id),
        db |-> [d EXCEPT !.indicators[get_indicator(d, id)] =
                  touched(d, @, updated_row(d, @, data))]]

(***************************************************************************)
(* DELETE /indicators/<id> and DELETE /intel/reference/<id>.               *)
(***************************************************************************)
remove_at(seq, i) == [k \in 1..(Len(seq) - 1) |-> IF k < i THEN seq[k] ELSE seq[k + 1]]

\* A deleted intel reference: the id is not used again.
Deleted == [reference |-> "<deleted>", source |-> 0, user |-> NoKey]

\* A row of another aggregate holds a foreign key to the indicator.
foreign_key(d, id) == id \in d.referenced

\* The delete that takes the indicator's intel references with it.
RECURSIVE tombstone(_, _)
tombstone(references, ids) ==
  IF ids = <<>> THEN references
  ELSE tombstone([references EXCEPT ![Head(ids)] = Deleted], Tail(ids))

delete_indicator_cascade(d, id) ==
  IF get_indicator(d, id) = 0 THEN [resp |-> failed(404, "indicator"), db |-> d]
  ELSE IF foreign_key(d, id) THEN [resp |-> failed(409, "indicator"), db |-> d]
  ELSE [resp |-> created(204, 0),
        db |-> [d EXCEPT !.indicators = remove_at(@, get_indicator(d, id)),
                         !.references = tombstone(@, d.indicators[get_indicator(d, id)].references)]]

\* The delete with no foreign key in its way.
delete_indicator_unguarded(d, id) ==
  IF get_indicator(d, id) = 0 THEN [resp |-> failed(404, "indicator"), db |-> d]
  ELSE [resp |-> created(204, 0),
        db |-> [d EXCEPT !.indicators = remove_at(@, get_indicator(d, id))]]

\* db.session.delete(indicator); commit: the association rows go with the
\* row; a foreign key pointing at the row raises IntegrityError, which is
\* caught: rollback, 409.
delete_indicator(d, id) ==
  IF get_indicator(d, id) = 0 THEN [resp |-> failed(404, "indicator"), db |-> d]
  ELSE IF foreign_key(d, id) THEN [resp |-> failed(409, "foreign key"), db |-> d]
  ELSE [resp |-> created(204, 0),
        db |-> [d EXCEPT !.indicators = remove_at(@, get_indicator(d, id))]]


\* IntelReference.query.get(id)
get_reference(d, id) == id \in DOMAIN d.references /\ d.references[id] # Deleted

\* A row of indicator_reference_association points at the reference.
reference_in_use(d, id) ==
  \E i \in DOMAIN d.indicators : \E k \in DOMAIN d.indicators[i].references :
    d.indicators[i].references[k] = id

delete_intel_reference(d, id) ==
  IF ~ get_reference(d, id) THEN [resp |-> failed(404, "reference"), db |-> d]
  ELSE IF reference_in_use(d, id) THEN [resp |-> failed(409, "foreign key"), db |-> d]
  ELSE [resp |-> created(204, 0), db |-> [d EXCEPT !.references[id] = Deleted]]

(***************************************************************************)
(* POST /intel/reference and PUT /intel/reference/<id>.  The body is form  *)
(* data: keys is the set of fields the request carries.                    *)
(***************************************************************************)
\* IntelReference.query.filter_by(reference=reference, source=source).first()
existing_reference(d, reference, source) ==
  \E i \in DOMAIN d.references :
    d.references[i].reference = reference /\ d.references[i].source = source

\* The create that adds the source it does not find.
create_intel_reference_any_source(d, data) ==
  IF ~ ({"reference", "source", "username"} \subseteq data.keys)
    THEN [resp |-> failed(400, "required"), db |-> d]
  ELSE IF First(d.sources, data.source) = 0
    THEN [resp |-> created(201, added_id(d, "references")),
          db |-> session_add(session_add(d, "sources", data.source), "references",
                             [reference |-> data.reference,
                              source |-> Len(d.sources) + 1,
                              user |-> UserByUsername(data.username)])]
  ELSE IF existing_reference(d, data.reference, First(d.sources, data.source))
    THEN [resp |-> failed(409, "exists"), db |-> d]
  ELSE IF UserByUsername(data.username) = NoKey
    THEN [resp |-> failed(401, "username"), db |-> d]
  ELSE [resp |-> created(201, added_id(d, "references")),
        db |-> session_add(d, "references",
                           [reference |-> data.reference,
                            source |-> First(d.sources, data.source),
                            user |-> UserByUsername(data.username)])]

\* The create with no look for the pair first.
create_intel_reference_unchecked(d, data) ==
  IF ~ ({"reference", "source", "username"} \subseteq data.keys)
    THEN [resp |-> failed(400, "required"), db |-> d]
  ELSE IF First(d.sources, data.source) = 0
    THEN [resp |-> failed(400, "source"), db |-> d]
  ELSE IF UserByUsername(data.username) = NoKey
    THEN [resp |-> failed(401, "username"), db |-> d]
  ELSE [resp |-> created(201, added_id(d, "references")),
        db |-> session_add(d, "references",
                           [reference |-> data.reference,
                            source |-> First(d.sources, data.source),
                            user |-> UserByUsername(data.username)])]

create_intel_reference(d, data) ==
  IF ~ ({"reference", "source", "username"} \subseteq data.keys)
    THEN [resp |-> failed(400, "required"), db |-> d]
  ELSE IF First(d.sources, data.source) = 0
    THEN [resp |-> failed(400, "source"), db |-> d]
  ELSE IF existing_reference(d, data.reference, First(d.sources, data.source))
    THEN [resp |-> failed(409, "exists"), db |-> d]
  ELSE IF UserByUsername(data.username) = NoKey
    THEN [resp |-> failed(401, "username"), db |-> d]
  ELSE [resp |-> created(201, added_id(d, "references")),
        db |-> session_add(d, "references",
                           [reference |-> data.reference,
                            source |-> First(d.sources, data.source),
                            user |-> UserByUsername(data.username)])]

\* The reference and the source the row is to get: the ones given, else
\* the ones it has; source 0 when the given source does not exist.
new_reference(d, id, data) ==
  IF "reference" \in data.keys THEN data.reference ELSE d.references[id].reference

new_source(d, id, data) ==
  IF "source" \in data.keys THEN First(d.sources, data.source) ELSE d.references[id].source

\* The update that looks for the pair on the other rows only.
update_intel_reference_others(d, id, data) ==
  IF ~ get_reference(d, id) THEN [resp |-> failed(404, "reference"), db |-> d]
  ELSE IF "reference" \notin data.keys /\ "source" \notin data.keys
    THEN [resp |-> failed(400, "required"), db |-> d]
  ELSE IF new_source(d, id, data) = 0 THEN [resp |-> failed(404, "source"), db |-> d]
  ELSE IF \E i \in DOMAIN d.references \ {id} :
            /\ d.references[i].reference = new_reference(d, id, data)
            /\ d.references[i].source = new_source(d, id, data)
    THEN [resp |-> failed(409, "exists"), db |-> d]
  ELSE [resp |-> created(200, id),
        db |-> [d EXCEPT !.references[id].reference = new_reference(d, id, data),
                         !.references[id].source = new_source(d, id, data)]]

update_intel_reference(d, id, data) ==
  IF ~ get_reference(d, id) THEN [resp |-> failed(404, "reference"), db |-> d]
  ELSE IF "reference" \notin data.keys /\ "source" \notin data.keys
    THEN [resp |-> failed(400, "required"), db |-> d]
  ELSE IF new_source(d, id, data) = 0 THEN [resp |-> failed(404, "source"), db |-> d]
  ELSE IF existing_reference(d, new_reference(d, id, data), new_source(d, id, data))
    THEN [resp |-> failed(409, "exists"), db |-> d]
  ELSE [resp |-> created(200, id),
        db |-> [d EXCEPT !.references[id].reference = new_reference(d, id, data),
                         !.references[id].source = new_source(d, id, data)]]

(***************************************************************************)
(* Request bodies.  data.keys is the set of keys present in the JSON       *)
(* object; a field whose key is absent is never read.                      *)
(***************************************************************************)
Base(type, value) ==
  [keys |-> {"username"}, username |-> "alice", type |-> type, value |-> value,
   case_sensitive |-> FALSE, substring |-> FALSE,
   confidence |-> "", impact |-> "", status |-> "",
   campaigns |-> <<>>, references |-> <<>>, tags |-> <<>>]

With(data, field, v) == [data EXCEPT ![field] = v, !.keys = @ \cup {field}]

Without(data, field) == [data EXCEPT !.keys = @ \ {field}]

R1 == [source |-> "ab", reference |-> "c"]
R2 == [source |-> "a", reference |-> "bc"]
R3 == [source |-> "ab", reference |-> "d"]
R4 == [source |-> "a", reference |-> "d"]

IdentityItems ==
  {Base("ip", v) : v \in {"a", "A"}}
  \cup {With(Base("ip", v), "case_sensitive", TRUE) : v \in {"a", "A"}}
  \cup {With(Base("ip", "a"), "case_sensitive", FALSE), Base("url", "a")}

UserItems ==
  {With(Base("ip", "b"), "username", u) : u \in {"bob", "ghost"}}
  \cup {Without(Base("ip", "b"), "username")}

LookupItems ==
  {With(Base("ip", "b"), "confidence", v) : v \in {"LOW", "HIGH"}}
  \cup {With(Base("ip", "b"), f, "HIGH") : f \in {"impact", "status"}}

RelationItems ==
  {With(Base("ip", "b"), "campaigns", l) : l \in {<<"c1">>, <<"c2", "c2">>}}
  \cup {With(Base("ip", "b"), "tags", l) : l \in {<<"t1">>, <<"t2", "t2">>}}
  \cup {With(Base("ip", "b"), "references", l) : l \in {<<R1>>, <<R1, R2>>, <<R3, R3>>}}

Items == IdentityItems \cup UserItems \cup LookupItems \cup RelationItems

BulkItems ==
  {Base("ip", "a"),
   With(Base("ip", "A"), "case_sensitive", TRUE),
   With(Base("ip", "b"), "username", "bob"),
   Without(Base("ip", "a"), "username"),
   With(Base("url", "b"), "tags", <<"t2", "t2">>),
   With(Base("ip", "b"), "references", <<R1>>),
   With(Base("ip", "a"), "references", <<R2, R2>>),
   With(Base("ip", "b"), "confidence", "HIGH")}

Batches == UNION {[1..n -> BulkItems] : n \in 0..MaxBatch}

Apikeys == {NoKey, "key_alice", "key_bob", "badkey"}

\* The API key matters only to an item without username.
ApikeysFor(items) ==
  IF \E i \in DOMAIN items : "username" \notin items[i].keys THEN Apikeys ELSE {NoKey}

(***************************************************************************)
(* Initial stores: a fresh install, and one with the lookup tables an      *)
(* administrator has filled.  Configurations of the auto-create switches.  *)
(***************************************************************************)
SeededStore ==
  [EmptyStore EXCEPT !.types = <<"ip">>, !.confidences = <<"LOW">>,
                     !.impacts = <<"LOW">>, !.statuses = <<"LOW">>,
                     !.campaigns = <<"c1">>, !.tags = <<"t1">>,
                     !.sources = <<"ab">>,
                     !.references = <<[reference |-> "c", source |-> 1, user |-> "alice"]>>]

InitialStores == {EmptyStore, SeededStore}

Configs == {Kinds, {}, {"type", "reference", "tag"}, {"confidence", "campaign"}}

NoRequest == [op |-> "none"]

NoResponse == [status |-> 0, message |-> "", id |-> 0]

\* Requests served concurrently by two workers, each in its own transaction.
Workers == {1, 2}

NoTransaction ==
  [state |-> "idle", data |-> Base("", ""), base |-> EmptyStore, sess |-> EmptyStore]

NoTransactions == [w \in Workers |-> NoTransaction @@ [resp |-> NoResponse]]

Init ==
  /\ db \in InitialStores
  /\ before = db
  /\ config \in Configs
  /\ request = NoRequest
  /\ response = NoResponse
  /\ txn = NoTransactions

(***************************************************************************)
(* Actions.  A request arrives (Receive...), its handler runs to its       *)
(* response in one step (the routes run one request per thread, in one     *)
(* transaction), and the response is sent (Reply).  `before` is the store  *)
(* as it was when the request in flight arrived.                           *)
(***************************************************************************)
Idle == request = NoRequest

Pending(op) == request.op = op /\ response = NoResponse

Answered == request # NoRequest /\ response # NoResponse

ReceiveCreateIndicator ==
  /\ Idle
  /\ Len(db.indicators) < MaxIndicators
  /\ \E data \in Items : \E apikey \in ApikeysFor(<<data>>) :
       request' = [op |-> "create_indicator", data |-> data, apikey |-> apikey]
  /\ UNCHANGED <<db, before, config, response, txn>>

ReceiveCreateIndicators ==
  /\ Idle
  /\ \E items \in Batches : \E apikey \in ApikeysFor(items) :
       /\ Len(db.indicators) + Len(items) <= MaxIndicators
       /\ request' = [op |-> "create_indicators", indicators |-> items, apikey |-> apikey]
  /\ UNCHANGED <<db, before, config, response, txn>>

CreateIndicator ==
  /\ Pending("create_indicator")
  /\ LET out == create_indicator(db, config, request.data, request.apikey) IN
       /\ response' = out.resp
       /\ db' = out.db
  /\ UNCHANGED <<before, config, request, txn>>

CreateIndicators ==
  /\ Pending("create_indicators")
  /\ LET out == create_indicators(db, config, request.indicators, request.apikey) IN
       /\ response' = out.resp
       /\ db' = out.db
  /\ UNCHANGED <<before, config, request, txn>>

Reply ==
  /\ Answered
  /\ request' = NoRequest
  /\ response' = NoResponse
  /\ before' = db
  /\ UNCHANGED <<db, config, txn>>

Next ==
  \/ ReceiveCreateIndicator
  \/ ReceiveCreateIndicators
  \/ CreateIndicator
  \/ CreateIndicators
  \/ Reply

Spec == Init /\ [][Next]_vars

(***************************************************************************)
(* Concurrent single creates.  Each worker runs create_indicator in its    *)
(* own transaction: the checks and the staging read the store as it is     *)
(* when the request starts, and db.session.commit() applies the staged     *)
(* rows to the store as it is then.  The lookup tables carry a uniqueness  *)
(* constraint on their value; create_indicator has no handler for the      *)
(* IntegrityError a commit raises, so the request ends in a 500.           *)
(***************************************************************************)
LookupTables == {"types", "confidences", "impacts", "statuses", "campaigns", "tags", "sources"}

\* The rows a session staged on top of the store it started from.
staged_rows(base, sess, table) == SubSeq(sess[table], Len(base[table]) + 1, Len(sess[table]))

\* The uniqueness constraint of the lookup tables, at commit.
unique_violation(cur, base, sess) ==
  \E t \in LookupTables :
    \E k \in DOMAIN staged_rows(base, sess, t) :
      \E j \in DOMAIN cur[t] : cur[t][j] = staged_rows(base, sess, t)[k]

\* The id a staged row gets when rows were committed in between.
rebased_id(cur, base, table, id) ==
  IF id > Len(base[table]) THEN id + Len(cur[table]) - Len(base[table]) ELSE id

rebased_indicator(cur, base, row, k) ==
  [row EXCEPT !.id = cur.next_id + k - 1,
              !.type = rebased_id(cur, base, "types", @),
              !.confidence = rebased_id(cur, base, "confidences", @),
              !.impact = rebased_id(cur, base, "impacts", @),
              !.status = rebased_id(cur, base, "statuses", @),
              !.campaigns = [x \in DOMAIN @ |-> rebased_id(cur, base, "campaigns", @[x])],
              !.tags = [x \in DOMAIN @ |-> rebased_id(cur, base, "tags", @[x])],
              !.references = [x \in DOMAIN @ |-> rebased_id(cur, base, "references", @[x])]]

\* db.session.commit(): the store with the staged rows inserted.
commit(cur, base, sess) ==
  LET refs == staged_rows(base, sess, "references")
      inds == staged_rows(base, sess, "indicators")
  IN [t \in DOMAIN cur |->
        IF t \in LookupTables THEN cur[t] \o staged_rows(base, sess, t)
        ELSE IF t = "references"
          THEN cur[t] \o [k \in DOMAIN refs |->
                            [refs[k] EXCEPT !.source = rebased_id(cur, base, "sources", @)]]
        ELSE IF t = "indicators"
          THEN cur[t] \o [k \in DOMAIN inds |-> rebased_indicator(cur, base, inds[k], k)]
        ELSE cur.next_id + Len(inds)]

\* The staged indicator has the type and value of a committed one.
same_indicator_committed(cur, base, sess) ==
  \E k \in DOMAIN staged_rows(base, sess, "indicators") :
    \E j \in DOMAIN cur.indicators :
      LET row == rebased_indicator(cur, base, staged_rows(base, sess, "indicators")[k], k)
      IN /\ cur.types[cur.indicators[j].type] = sess.types[staged_rows(base, sess, "indicators")[k].type]
         /\ cur.indicators[j].value = row.value

RaceItems ==
  {Base("ip", "a"), With(Base("ip", "A"), "case_sensitive", TRUE),
   With(Base("ip", "a"), "tags", <<"t2">>), With(Base("ip", "b"), "tags", <<"t2">>),
   With(Base("ip", "b"), "campaigns", <<"c1">>), Base("url", "b")}

RaceInit ==
  /\ db = SeededStore
  /\ before = db
  /\ config = Kinds
  /\ request = NoRequest
  /\ response = NoResponse
  /\ txn = NoTransactions

\* create_indicator up to its commit: the response of an early return, or
\* the session holding the staged rows.
StageCreateIndicator(w) ==
  /\ txn[w].state = "idle"
  /\ \E data \in RaceItems :
       LET out == create_indicator(db, config, data, NoKey) IN
       txn' = [txn EXCEPT ![w] =
                 IF out.resp.status # 201
                   THEN [state |-> "done", data |-> data, base |-> db, sess |-> db,
                         resp |-> out.resp]
                   ELSE [state |-> "staged", data |-> data, base |-> db, sess |-> out.db,
                         resp |-> NoResponse]]
  /\ UNCHANGED <<db, before, config, request, response>>

\* db.session.commit() of create_indicator and the response after it.
CommitCreateIndicator(w) ==
  /\ txn[w].state = "staged"
  /\ IF unique_violation(db, txn[w].base, txn[w].sess)
       THEN /\ txn' = [txn EXCEPT ![w].state = "done",
                                  ![w].resp = failed(500, "IntegrityError")]
            /\ UNCHANGED db
       ELSE \/ /\ db' = commit(db, txn[w].base, txn[w].sess)
               /\ txn' = [txn EXCEPT ![w].state = "done",
                                     ![w].resp = created(201, db.next_id)]
            \/ /\ same_indicator_committed(db, txn[w].base, txn[w].sess)
               /\ txn' = [txn EXCEPT ![w].state = "done",
                                     ![w].resp = failed(500, "IntegrityError")]
               /\ UNCHANGED db
  /\ UNCHANGED <<before, config, request, response>>

RaceNext == \E w \in Workers : StageCreateIndicator(w) \/ CommitCreateIndicator(w)

SpecRace == RaceInit /\ [][RaceNext]_vars

(***************************************************************************)
(* Reads.  The stores are the ones create_indicators leaves behind from    *)
(* the seeded store; a read request carries at most MaxParams filter keys, *)
(* with or without count, and passes the API-key check.                    *)
(***************************************************************************)
MaxParams == 2

ReadItemsA ==
  {With(With(Base("ip", "a"), "tags", <<"t1", "t2">>), "campaigns", <<"c1">>),
   With(With(Base("ip", "a"), "username", "carol"), "references", <<R1, R4>>),
   With(With(With(Base("ip", "a"), "username", "carol"), "references", <<R1, R4>>),
        "tags", <<"t1", "t2">>)}

ReadItemsB ==
  {With(Base("url", "b"), "tags", <<"t2">>),
   With(Base("ip", "b"), "references", <<R1>>),
   With(With(With(Base("ip", "b"), "username", "carol"), "references", <<R4>>),
        "tags", <<"t1">>),
   With(With(Base("ip", "b"), "campaigns", <<"c1">>), "confidence", "HIGH")}

ReadBatches ==
  {<<>>} \cup {<<x>> : x \in ReadItemsA \cup ReadItemsB}
  \cup {<<x, y>> : x \in ReadItemsA, y \in ReadItemsB}

ReadStores == {create_indicators(SeededStore, Kinds, items, NoKey).db : items \in ReadBatches}

Param(name, value) == [name |-> name, value |-> value]

ParamChoices ==
  {Param("case_sensitive", <<"true">>),
   Param("confidence", <<"LOW">>),
   Param("created_after", <<"1">>), Param("created_after", <<"junk">>),
   Param("created_before", <<"2">>), Param("created_before", <<"junk">>),
   Param("exact_value", <<"a">>), Param("impact", <<"LOW">>),
   Param("modified_after", <<"0">>), Param("modified_after", <<"junk">>),
   Param("modified_before", <<"junk">>),
   Param("no_campaigns", <<>>), Param("no_references", <<>>), Param("no_tags", <<>>),
   Param("not_sources", <<"ab">>), Param("not_sources", <<"ab", ",", "a">>),
   Param("not_tags", <<"t1">>), Param("not_tags", <<"t1", ",", "t2">>),
   Param("not_users", <<"alice">>), Param("reference", <<"c">>),
   Param("sources", <<"ab">>), Param("sources", <<"ab", ",", "a">>),
   Param("sources", <<"[OR]", "ab", ",", "a">>),
   Param("status", <<"LOW">>), Param("substring", <<"false">>),
   Param("tags", <<"t1">>), Param("tags", <<"t1", ",", "t2">>),
   Param("tags", <<"[OR]", "t1", ",", "t2">>), Param("tags", <<"t2", ",", "t3", "[OR]">>),
   Param("type", <<"ip">>), Param("types", <<"ip", ",", "url">>),
   Param("user", <<"carol">>),
   Param("users", <<"alice", ",", "carol">>),
   Param("users", <<"[OR]", "alice", ",", "carol">>),
   Param("value", <<"a">>), Param("foo", <<"x">>)}

NoArgs == [name \in {} |-> <<>>]

RECURSIVE ArgsOfSize(_)
ArgsOfSize(n) ==
  IF n = 0 THEN {NoArgs}
  ELSE {(c.name :> c.value) @@ args :
          <<args, c>> \in {ac \in ArgsOfSize(n - 1) \X ParamChoices :
                             ac[2].name \notin DOMAIN ac[1]}}

FilterArgs == UNION {ArgsOfSize(n) : n \in 0..MaxParams}

ReadArgs == FilterArgs \cup {("count" :> <<>>) @@ args : args \in FilterArgs}

ReadInit ==
  /\ db \in ReadStores
  /\ before = db
  /\ config = Kinds
  /\ request = NoRequest
  /\ response = NoResponse
  /\ txn = NoTransactions

ReceiveReadIndicators ==
  /\ Idle
  /\ \E args \in ReadArgs : request' = [op |-> "read_indicators", args |-> args]
  /\ UNCHANGED <<db, before, config, response, txn>>

ReadIndicators ==
  /\ Pending("read_indicators")
  /\ response' = read_indicators(db, request.args)
  /\ UNCHANGED <<db, before, config, request, txn>>

ReadNext ==
  \/ ReceiveReadIndicators
  \/ ReadIndicators
  \/ Reply

SpecRead == ReadInit /\ [][ReadNext]_vars

(***************************************************************************)
(* Edits.  The store holds two indicators left by create_indicators, the   *)
(* second pointed at by a row of another aggregate; requests update and    *)
(* delete indicators, create, update and delete intel references, and      *)
(* create indicators that name references.                                 *)
(***************************************************************************)
MaxReferences == 3

EditBatch ==
  <<With(With(With(With(With(Base("ip", "a"), "username", "carol"), "references", <<R1, R4>>),
                   "tags", <<"t1", "t2">>), "campaigns", <<"c1">>), "case_sensitive", TRUE),
    With(With(With(Base("ip", "A"), "references", <<R1>>), "tags", <<"t1">>),
         "case_sensitive", TRUE)>>

EditStores ==
  {[create_indicators(SeededStore, Kinds, EditBatch, NoKey).db EXCEPT !.referenced = {2}]}

\* A body that carries no key yet.
NoBody == Without(Base("", ""), "username")

UpdateBodies ==
  {With(NoBody, "campaigns", l) : l \in {<<"c1">>, <<"c9">>, <<>>}}
  \cup {With(NoBody, "tags", l) : l \in {<<"t2">>, <<"t1", "t9">>, <<>>}}
  \cup {With(NoBody, "references", l) : l \in {<<R1>>, <<R3>>, <<>>}}
  \cup {With(NoBody, "confidence", v) : v \in {"LOW", "NOPE"}}
  \cup {With(NoBody, f, "NOPE") : f \in {"impact", "status"}}
  \cup {With(NoBody, "case_sensitive", FALSE)}
  \cup {With(NoBody, "username", u) : u \in {"alice", "bob", "ghost"}}
  \cup {With(With(NoBody, "campaigns", <<"c9">>), "confidence", "NOPE"),
        With(With(NoBody, "tags", <<"t1">>), "confidence", "NOPE"),
        With(With(NoBody, "tags", <<"t9">>), "username", "ghost"),
        With(With(NoBody, "case_sensitive", FALSE), "status", "NOPE"),
        With(NoBody, "value", "z")}

IndicatorIds == {1, 2, 9}

ReferenceIds == {2, 9}

Form(keys, reference, source, username) ==
  [keys |-> keys, reference |-> reference, source |-> source, username |-> username]

AllKeys == {"reference", "source", "username"}

CreateReferenceBodies ==
  {Form(AllKeys, "c", "ab", "alice"),
   Form(AllKeys, "c", "a", "bob"), Form(AllKeys, "c", "zz", "alice"),
   Form(AllKeys, "d", "ab", "ghost"), Form({"reference", "source"}, "d", "ab", "")}

UpdateReferenceBodies ==
  {Form({"reference"}, "d", "", ""), Form({"source"}, "", "a", ""),
   Form({"reference", "source"}, "c", "ab", ""), Form({"source"}, "", "zz", ""),
   Form({"username"}, "", "", "alice")}

EditItems == {With(Base("url", "a"), "references", <<R3>>)}

EditBatches ==
  {<<With(Base("url", "a"), "references", <<R3>>),
     With(Base("url", "b"), "references", <<R3, R1>>)>>}

\* The auto-create switches: all on, or the one for indicator types only.
EditConfigs == {Kinds, {"type"}}

EditInit ==
  /\ db \in EditStores
  /\ before = db
  /\ config \in EditConfigs
  /\ request = NoRequest
  /\ response = NoResponse
  /\ txn = NoTransactions

ReceiveEditCreateIndicator ==
  /\ Idle
  /\ Len(db.indicators) < MaxIndicators
  /\ Len(db.references) < MaxReferences
  /\ \E data \in EditItems :
       request' = [op |-> "create_indicator", data |-> data, apikey |-> NoKey]
  /\ UNCHANGED <<db, before, config, response, txn>>

ReceiveEditCreateIndicators ==
  /\ Idle
  /\ Len(db.indicators) + MaxBatch <= MaxIndicators
  /\ Len(db.references) < MaxReferences
  /\ \E items \in EditBatches :
       request' = [op |-> "create_indicators", indicators |-> items, apikey |-> NoKey]
  /\ UNCHANGED <<db, before, config, response, txn>>

ReceiveUpdateIndicator ==
  /\ Idle
  /\ \E id \in IndicatorIds \ {2} : \E data \in UpdateBodies :
       request' = [op |-> "update_indicator", id |-> id, data |-> data]
  /\ UNCHANGED <<db, before, config, response, txn>>

UpdateIndicator ==
  /\ Pending("update_indicator")
  /\ LET out == update_indicator(db, request.id, request.data) IN
       /\ response' = out.resp
       /\ db' = out.db
  /\ UNCHANGED <<before, config, request, txn>>

ReceiveDeleteIndicator ==
  /\ Idle
  /\ \E id \in IndicatorIds : request' = [op |-> "delete_indicator", id |-> id]
  /\ UNCHANGED <<db, before, config, response, txn>>

DeleteIndicator ==
  /\ Pending("delete_indicator")
  /\ LET out == delete_indicator(db, request.id) IN
       /\ response' = out.resp
       /\ db' = out.db
  /\ UNCHANGED <<before, config, request, txn>>

ReceiveCreateIntelReference ==
  /\ Idle
  /\ Len(db.references) <= MaxReferences
  /\ \E data \in CreateReferenceBodies :
       request' = [op |-> "create_intel_reference", data |-> data]
  /\ UNCHANGED <<db, before, config, response, txn>>

CreateIntelReference ==
  /\ Pending("create_intel_reference")
  /\ LET out == create_intel_reference(db, request.data) IN
       /\ response' = out.resp
       /\ db' = out.db
  /\ UNCHANGED <<before, config, request, txn>>

ReceiveUpdateIntelReference ==
  /\ Idle
  /\ \E id \in {1, 9} : \E data \in UpdateReferenceBodies :
       request' = [op |-> "update_intel_reference", id |-> id, data |-> data]
  /\ UNCHANGED <<db, before, config, response, txn>>

UpdateIntelReference ==
  /\ Pending("update_intel_reference")
  /\ LET out == update_intel_reference(db, request.id, request.data) IN
       /\ response' = out.resp
       /\ db' = out.db
  /\ UNCHANGED <<before, config, request, txn>>

ReceiveDeleteIntelReference ==
  /\ Idle
  /\ \E id \in ReferenceIds : request' = [op |-> "delete_intel_reference", id |-> id]
  /\ UNCHANGED <<db, before, config, response, txn>>

DeleteIntelReference ==
  /\ Pending("delete_intel_reference")
  /\ LET out == delete_intel_reference(db, request.id) IN
       /\ response' = out.resp
       /\ db' = out.db
  /\ UNCHANGED <<before, config, request, txn>>

EditNext ==
  \/ ReceiveEditCreateIndicator
  \/ CreateIndicator
  \/ ReceiveEditCreateIndicators
  \/ CreateIndicators
  \/ ReceiveUpdateIndicator
  \/ UpdateIndicator
  \/ ReceiveDeleteIndicator
  \/ DeleteIndicator
  \/ ReceiveCreateIntelReference
  \/ CreateIntelReference
  \/ ReceiveUpdateIntelReference
  \/ UpdateIntelReference
  \/ ReceiveDeleteIntelReference
  \/ DeleteIntelReference
  \/ Reply

SpecEdit == EditInit /\ [][EditNext]_vars

(***************************************************************************)
(* Properties.                                                             *)
(***************************************************************************)
SingleAnswered == request.op = "create_indicator" /\ response # NoResponse

BulkAnswered == request.op = "create_indicators" /\ response # NoResponse

\* Equality of two values under a comparison mode.
SameUnderMode(case_sensitive, v, w) ==
  IF case_sensitive THEN v = w ELSE Lower(v) = Lower(w)

\* The case mode a request item declares.
ItemMode(data) == "case_sensitive" \in data.keys /\ data.case_sensitive

\* The item names a user that is unknown or inactive.
BadUser(data, apikey) ==
  IF "username" \in data.keys
    THEN data.username \notin ActiveUsers
    ELSE ~ \E u \in ActiveUsers : ApikeyOf[u] = apikey

\* The item duplicates an indicator of store d under the item's mode.
DuplicateIn(d, data) ==
  \E i \in DOMAIN d.indicators :
    /\ d.types[d.indicators[i].type] = data.type
    /\ SameUnderMode(ItemMode(data), d.indicators[i].value, data.value)

\* The rows of d that were added after store b.
NewIndicators(b, d) ==
  SubSeq(d.indicators, Len(b.indicators) + 1, Len(d.indicators))

\* C1: for every persisted indicator i there is no other persisted indicator
\* of the same type whose value equals i's value under i's comparison mode.
C1_Uniqueness ==
  \A i, j \in DOMAIN db.indicators :
    (i # j /\ db.indicators[i].type = db.indicators[j].type)
      => ~ SameUnderMode(db.indicators[i].case_sensitive,
                         db.indicators[i].value, db.indicators[j].value)

\* C2: a bulk request answers 204 or an error; an item with an unknown or
\* inactive user makes the request fail; and a failed bulk request leaves
\* the store as it was before the request (no indicator and no lookup row
\* staged by an earlier item is persisted).
C2_BulkFailureAtomic ==
  BulkAnswered =>
    /\ response.status \in {204, 400, 401, 404}
    /\ (\E i \in DOMAIN request.indicators : BadUser(request.indicators[i], request.apikey))
         => response.status # 204
    /\ response.status # 204 => db = before

\* C2 witness: a two-item batch failed although its first item alone would
\* have persisted an indicator and a new lookup row.
C2_Witness ==
  /\ BulkAnswered
  /\ response.status # 204
  /\ Len(request.indicators) = 2
  /\ LET one == create_indicators(before, config, <<request.indicators[1]>>, request.apikey)
     IN /\ one.resp.status = 204
        /\ Len(one.db.indicators) > Len(before.indicators)
        /\ Len(one.db.tags) > Len(before.tags)

\* The items of a batch that duplicate nothing known so far, in order;
\* known is the set of (type, value) pairs persisted or accepted earlier.
RECURSIVE Survivors(_, _)
Survivors(known, items) ==
  IF items = <<>> THEN <<>>
  ELSE LET it == Head(items)
           dup == \E k \in known :
                    k.type = it.type /\ SameUnderMode(ItemMode(it), k.value, it.value)
       IN IF dup THEN Survivors(known, Tail(items))
          ELSE <<it>> \o Survivors(known \cup {[type |-> it.type, value |-> it.value]},
                                   Tail(items))

KnownPairs(d) ==
  {[type |-> d.types[d.indicators[i].type], value |-> d.indicators[i].value] :
     i \in DOMAIN d.indicators}

Identity(d, row) ==
  [type |-> d.types[row.type], value |-> row.value, case_sensitive |-> row.case_sensitive]

ItemIdentity(data) ==
  [type |-> data.type, value |-> data.value, case_sensitive |-> ItemMode(data)]

\* C3: a bulk request none of whose items fails a validation answers 204;
\* a bulk request that answers 204 has persisted, in order, exactly the
\* items that duplicate neither a persisted indicator nor an earlier item
\* of the batch under their own case mode, and kept every earlier row.
C3_BulkSkipsDuplicates ==
  BulkAnswered =>
    /\ (\A i \in DOMAIN request.indicators :
          create_indicators(before, config, <<request.indicators[i]>>,
                            request.apikey).resp.status = 204)
         => response.status = 204
    /\ response.status = 204 =>
         LET kept == Survivors(KnownPairs(before), request.indicators)
             rows == NewIndicators(before, db)
         IN /\ Len(rows) = Len(kept)
            /\ \A k \in DOMAIN kept : Identity(db, rows[k]) = ItemIdentity(kept[k])
            /\ SubSeq(db.indicators, 1, Len(before.indicators)) = before.indicators

\* C3 witness: a batch answered 204 with one item skipped and one persisted.
C3_Witness ==
  /\ BulkAnswered
  /\ response.status = 204
  /\ Len(request.indicators) = 2
  /\ Len(NewIndicators(before, db)) = 1

\* C4: a single-create request of a known active user whose (type, value)
\* duplicates a persisted indicator under the request's case mode answers
\* 409 and leaves the store unchanged.
C4_SingleDuplicateConflict ==
  (SingleAnswered /\ ~ BadUser(request.data, request.apikey)
     /\ DuplicateIn(before, request.data))
    => (response.status = 409 /\ db = before)

\* C4 witness: a duplicate single-create request was answered.
C4_Witness ==
  /\ SingleAnswered
  /\ ~ BadUser(request.data, request.apikey)
  /\ DuplicateIn(before, request.data)
  /\ Lower(request.data.value) = "a"

\* The relation values an item names, and those a row is linked to.
Named(data) ==
  [campaigns |-> list_of(data, "campaigns"), tags |-> list_of(data, "tags"),
   references |-> list_of(data, "references")]

Linked(d, row) ==
  [campaigns |-> [k \in DOMAIN row.campaigns |-> d.campaigns[row.campaigns[k]]],
   tags |-> [k \in DOMAIN row.tags |-> d.tags[row.tags[k]]],
   references |-> [k \in DOMAIN row.references |->
                     [source |-> d.sources[d.references[row.references[k]].source],
                      reference |-> d.references[row.references[k]].reference]]]

Distinct(seq) == \A i, j \in DOMAIN seq : seq[i] = seq[j] => i = j

ReferencePairs(d) ==
  [k \in DOMAIN d.references |->
     [source |-> d.sources[d.references[k].source], reference |-> d.references[k].reference]]

\* C5: after a successful single or bulk create no lookup table holds a
\* value twice, and every indicator the request persisted is linked to the
\* rows carrying exactly the values its item named.
C5_IdempotentResolution ==
  ((SingleAnswered /\ response.status = 201) \/ (BulkAnswered /\ response.status = 204)) =>
    /\ \A t \in {"types", "confidences", "impacts", "statuses", "campaigns", "tags", "sources"} :
         Distinct(db[t])
    /\ Distinct(ReferencePairs(db))
    /\ LET rows == NewIndicators(before, db)
           kept == IF request.op = "create_indicator" THEN <<request.data>>
                   ELSE Survivors(KnownPairs(before), request.indicators)
       IN \A k \in DOMAIN rows : k \in DOMAIN kept /\ Linked(db, rows[k]) = Named(kept[k])

\* C6: when two requests create the same indicator or auto-create the same
\* lookup value concurrently, no request ends in an unhandled failure (a
\* loser is answered 409), no lookup table holds a value twice and no two
\* indicators have the same type and value.
C6_RaceFailsSafe ==
  /\ \A w \in Workers : txn[w].resp.status \in {0, 201, 409}
  /\ \A t \in LookupTables : Distinct(db[t])
  /\ \A i, j \in DOMAIN db.indicators :
       (i # j /\ db.indicators[i].type = db.indicators[j].type)
         => db.indicators[i].value # db.indicators[j].value

ReadAnswered == request.op = "read_indicators" /\ response # NoResponse

Recognized == {FilterOrder[k] : k \in DOMAIN FilterOrder}

ids_of(resp) == {resp.data[k].id : k \in DOMAIN resp.data}

\* The names a list value spells out, separators and marker aside.
Listed(tokens) == {tokens[k] : k \in DOMAIN tokens} \ {",", "[OR]"}

\* The values an indicator is related to through tags or references.
RelatedTo(name, ind) ==
  CASE name = "tags" -> {db.tags[ind.tags[k]] : k \in DOMAIN ind.tags}
    [] name = "sources" ->
         {db.sources[db.references[ind.references[k]].source] : k \in DOMAIN ind.references}
    [] name = "users" -> {db.references[ind.references[k]].user : k \in DOMAIN ind.references}

Matches(name, tokens, ind) ==
  IF \E k \in DOMAIN tokens : tokens[k] = "[OR]"
    THEN Listed(tokens) \cap RelatedTo(name, ind) # {}
    ELSE Listed(tokens) \subseteq RelatedTo(name, ind)

\* C7: a tags, sources or users list alone returns, each once, exactly the
\* indicators related to every listed value, or, when the value carries
\* the [OR] marker, exactly those related to at least one listed value.
C7_ListAndOr ==
  \A name \in {"tags", "sources", "users"} :
    (ReadAnswered /\ DOMAIN request.args = {name}) =>
      /\ response.status = 200
      /\ Len(response.data) = Cardinality(ids_of(response))
      /\ ids_of(response) =
           {db.indicators[i].id : i \in {j \in DOMAIN db.indicators :
              Matches(name, request.args[name], db.indicators[j])}}

\* An AND list of two tags that keeps the indicator carrying both and
\* drops the one carrying only one of them.
C7_Witness ==
  /\ ReadAnswered
  /\ DOMAIN request.args = {"tags"}
  /\ request.args["tags"] = <<"t1", ",", "t2">>
  /\ Len(db.indicators) = 2
  /\ db.indicators[2].tags # <<>>
  /\ ids_of(response) = {db.indicators[1].id}

Drop(args, name) == [n \in DOMAIN args \ {name} |-> args[n]]

\* C8: for recognized filter keys, a request with count answers the number
\* of items the same request without count returns.
C8_CountParity ==
  (ReadAnswered /\ "count" \in DOMAIN request.args
     /\ DOMAIN request.args \subseteq Recognized \cup {"count"}) =>
    /\ response.status = 200
    /\ read_indicators(db, Drop(request.args, "count")).status = 200
    /\ response.count = Len(read_indicators(db, Drop(request.args, "count")).data)

Alone(args, name) == [n \in {name} |-> args[n]]

\* C9: the indicators returned for several recognized filter keys are the
\* ones every key returns when used alone.
C9_Intersection ==
  (ReadAnswered /\ "count" \notin DOMAIN request.args
     /\ DOMAIN request.args # {} /\ DOMAIN request.args \subseteq Recognized) =>
    ids_of(response) =
      {db.indicators[i].id : i \in {j \in DOMAIN db.indicators :
         \A n \in DOMAIN request.args :
           db.indicators[j].id \in ids_of(read_indicators(db, Alone(request.args, n)))}}

\* C10: no table appears twice in the join the handler builds for a request.
C10_JoinedOnce ==
  request.op = "read_indicators" => ~not_unique_table(plan_of(request.args).join)

tags_of(ind) == {db.tags[ind.tags[k]] : k \in DOMAIN ind.tags}

\* C11: not_tags alone returns, each once, exactly the indicators that
\* carry none of the listed tags, the indicators without any tag included.
C11_NotTags ==
  (ReadAnswered /\ DOMAIN request.args = {"not_tags"}) =>
    /\ response.status = 200
    /\ Len(response.data) = Cardinality(ids_of(response))
    /\ ids_of(response) =
         {db.indicators[i].id : i \in {j \in DOMAIN db.indicators :
            Listed(request.args["not_tags"]) \cap tags_of(db.indicators[j]) = {}}}

\* not_tags=t1 over an indicator without tags, which is returned, and an
\* indicator tagged t1, which is not.
C11_Witness ==
  /\ ReadAnswered
  /\ DOMAIN request.args = {"not_tags"}
  /\ request.args["not_tags"] = <<"t1">>
  /\ Len(db.indicators) = 2
  /\ db.indicators[1].tags = <<>>
  /\ "t1" \in tags_of(db.indicators[2])
  /\ ids_of(response) = {db.indicators[1].id}

RelationOf(name) ==
  CASE name = "no_tags" -> "tags"
    [] name = "no_campaigns" -> "campaigns"
    [] name = "no_references" -> "references"

\* C12: no_tags, no_campaigns and no_references alone each return, each
\* once, exactly the indicators with no related row of that relation.
C12_NoRelation ==
  \A name \in {"no_tags", "no_campaigns", "no_references"} :
    (ReadAnswered /\ DOMAIN request.args = {name}) =>
      /\ response.status = 200
      /\ Len(response.data) = Cardinality(ids_of(response))
      /\ ids_of(response) =
           {db.indicators[i].id : i \in {j \in DOMAIN db.indicators :
              db.indicators[j][RelationOf(name)] = <<>>}}

\* no_campaigns over an indicator with tags but no campaign, which is
\* returned, and an indicator in a campaign, which is not.
C12_Witness ==
  /\ ReadAnswered
  /\ DOMAIN request.args = {"no_campaigns"}
  /\ Len(db.indicators) = 2
  /\ db.indicators[1].campaigns = <<>> /\ db.indicators[1].tags # <<>>
  /\ db.indicators[2].campaigns # <<>>
  /\ ids_of(response) = {db.indicators[1].id}

\* The attributes with a default, in the order the handlers resolve them,
\* and the table of each.
DefaultFields == <<"confidence", "impact", "status">>

TableOf(field) ==
  CASE field = "confidence" -> "confidences"
    [] field = "impact" -> "impacts"
    [] field = "status" -> "statuses"

\* The row carries, for an omitted attribute, the lowest id of the kind,
\* and for a given attribute the row of the given value.
DefaultsApplied(data, row) ==
  \A k \in DOMAIN DefaultFields :
    LET f == DefaultFields[k] IN
      IF f \in data.keys
        THEN db[TableOf(f)][row[f]] = data[f]
        ELSE row[f] = 1

\* The item gets through the attribute at position k of DefaultFields.
Resolves(d, cfg, data, k) ==
  LET f == DefaultFields[k] IN
    IF f \in data.keys
      THEN (\E n \in DOMAIN d[TableOf(f)] : d[TableOf(f)][n] = data[f]) \/ f \in cfg
      ELSE d[TableOf(f)] # <<>>

\* The item gets as far as the attribute at position k, which it omits
\* while no row of the kind exists.
DefaultMissing(d, cfg, data, apikey, k) ==
  /\ ~ BadUser(data, apikey)
  /\ (\E n \in DOMAIN d.types : d.types[n] = data.type) \/ "type" \in cfg
  /\ ~ DuplicateIn(d, data)
  /\ \A g \in 1..(k - 1) : Resolves(d, cfg, data, g)
  /\ DefaultFields[k] \notin data.keys
  /\ d[TableOf(DefaultFields[k])] = <<>>

\* C13: an indicator created without confidence, impact or status gets the
\* lowest-id row of that kind and one created with a value gets the row of
\* that value; a single request, or the first item of a batch, that reaches
\* an omitted attribute of which no row exists is answered 400 and the
\* store is unchanged.
C13_DefaultResolution ==
  /\ (SingleAnswered /\ response.status = 201) =>
       DefaultsApplied(request.data, db.indicators[Len(db.indicators)])
  /\ SingleAnswered =>
       \A k \in DOMAIN DefaultFields :
         DefaultMissing(before, config, request.data, request.apikey, k)
           => (response.status = 400 /\ db = before)
  /\ (BulkAnswered /\ response.status = 204) =>
       LET kept == Survivors(KnownPairs(before), request.indicators)
           rows == NewIndicators(before, db)
       IN \A n \in DOMAIN rows : n \in DOMAIN kept /\ DefaultsApplied(kept[n], rows[n])
  /\ (BulkAnswered /\ request.indicators # <<>>) =>
       \A k \in DOMAIN DefaultFields :
         DefaultMissing(before, config, request.indicators[1], request.apikey, k)
           => (response.status = 400 /\ db = before)

\* A request that names a new confidence, which is staged, and omits the
\* impact while no impact exists: 400.
C13_Witness ==
  /\ SingleAnswered
  /\ "confidence" \in request.data.keys
  /\ "confidence" \in config
  /\ before.confidences = <<>>
  /\ DefaultMissing(before, config, request.data, request.apikey, 2)
  /\ response.status = 400

\* The table of a lookup kind named by a single value.
KindTable(kind) ==
  CASE kind = "type" -> "types"
    [] kind = "confidence" -> "confidences"
    [] kind = "impact" -> "impacts"
    [] kind = "status" -> "statuses"
    [] kind = "campaign" -> "campaigns"
    [] kind = "tag" -> "tags"

\* The lookup values an item names, by kind, and the references it names.
NamedScalars(data) ==
  {[kind |-> "type", value |-> data.type]}
  \cup {[kind |-> f, value |-> data[f]] : f \in {"confidence", "impact", "status"} \cap data.keys}
  \cup {[kind |-> "campaign", value |-> Named(data).campaigns[k]] :
          k \in DOMAIN Named(data).campaigns}
  \cup {[kind |-> "tag", value |-> Named(data).tags[k]] : k \in DOMAIN Named(data).tags}

NamedReferences(data) == {Named(data).references[k] : k \in DOMAIN Named(data).references}

Has(d, x) == \E n \in DOMAIN d[KindTable(x.kind)] : d[KindTable(x.kind)][n] = x.value

HasReference(d, r) == \E k \in DOMAIN d.references : ReferencePairs(d)[k] = r

\* The item names a value that store d lacks and that may not be created.
MissingOff(d, cfg, data) ==
  \/ \E x \in NamedScalars(data) : ~ Has(d, x) /\ x.kind \notin cfg
  \/ \E r \in NamedReferences(data) : ~ HasReference(d, r) /\ "reference" \notin cfg

AllPresent(d, data) ==
  /\ \A x \in NamedScalars(data) : Has(d, x)
  /\ \A r \in NamedReferences(data) : HasReference(d, r)

\* Nothing but a missing value can stop the item.
OnlyLookupsCanFail(d, data, apikey) ==
  /\ ~ BadUser(data, apikey)
  /\ ~ DuplicateIn(d, data)
  /\ \A k \in DOMAIN DefaultFields :
       DefaultFields[k] \in data.keys \/ d[TableOf(DefaultFields[k])] # <<>>

\* C14 for POST /indicators: a value that is missing while its switch is
\* off gives 404 and an unchanged store; a created indicator finds every
\* value it names persisted with it.
C14_SingleAutoCreate ==
  SingleAnswered =>
    /\ (MissingOff(before, config, request.data)
          /\ OnlyLookupsCanFail(before, request.data, request.apikey))
         => (response.status = 404 /\ db = before)
    /\ response.status = 201 =>
         (~ MissingOff(before, config, request.data) /\ AllPresent(db, request.data))

\* C14 for POST /indicators/bulk, the same per persisted item.
C14_BulkAutoCreate ==
  BulkAnswered =>
    /\ (request.indicators # <<>>
          /\ MissingOff(before, config, request.indicators[1])
          /\ OnlyLookupsCanFail(before, request.indicators[1], request.apikey))
         => (response.status = 404 /\ db = before)
    /\ response.status = 204 =>
         LET kept == Survivors(KnownPairs(before), request.indicators)
         IN \A n \in DOMAIN kept :
              ~ MissingOff(before, config, kept[n]) /\ AllPresent(db, kept[n])

\* C14: in single and bulk create, a named value that does not exist gives
\* 404 and persists nothing when the switch of its kind is off, and is
\* created and persisted with the indicator when the switch is on.
C14_AutoCreate == C14_SingleAutoCreate /\ C14_BulkAutoCreate

Answers(op) == request.op = op /\ response # NoResponse

\* C15: a request that names a user who is not active, to attribute an
\* indicator or an intel reference to, is rejected and persists nothing,
\* and every persisted indicator and intel reference has an active user.
C15_ActiveAttribution ==
  /\ \A op \in {"create_intel_reference", "update_indicator"} :
       (Answers(op) /\ "username" \in request.data.keys
          /\ request.data.username \notin ActiveUsers)
         => (response.status \notin {200, 201} /\ db = before)
  /\ (Answers("create_indicator") /\ BadUser(request.data, request.apikey))
       => (response.status # 201 /\ db = before)
  /\ \A i \in DOMAIN db.indicators : db.indicators[i].user \in ActiveUsers
  /\ \A k \in DOMAIN db.references :
       db.references[k] # Deleted => db.references[k].user \in ActiveUsers

\* C16: deleting an indicator that a row of another aggregate points at,
\* or an intel reference that an indicator is linked to, answers 409 and
\* leaves the store, the row and its associations included, unchanged.
C16_DeleteGuard ==
  /\ (Answers("delete_indicator")
        /\ (\E i \in DOMAIN before.indicators : before.indicators[i].id = request.id)
        /\ request.id \in before.referenced)
       => (response.status = 409 /\ db = before)
  /\ (Answers("delete_intel_reference")
        /\ \E i \in DOMAIN before.indicators :
             \E k \in DOMAIN before.indicators[i].references :
               before.indicators[i].references[k] = request.id)
       => (response.status = 409 /\ db = before)

\* The delete of a referenced indicator that has tags and references was
\* answered 409.
C16_Witness ==
  /\ Answers("delete_indicator")
  /\ request.id \in before.referenced
  /\ \E i \in DOMAIN db.indicators :
       /\ db.indicators[i].id = request.id
       /\ db.indicators[i].tags # <<>>
       /\ db.indicators[i].references # <<>>
  /\ response.status = 409

\* The rows of a store without the indicator of that id.
RowsWithout(d, id) ==
  LET Keep(row) == row.id # id IN SelectSeq(d.indicators, Keep)

\* C17: a successful delete of an indicator removes that indicator and its
\* association rows only: every campaign, tag, intel reference and other
\* lookup row is still there, and every other indicator is as it was,
\* its relations included.
C17_DeleteFrame ==
  (Answers("delete_indicator") /\ response.status = 204) =>
    /\ \A t \in {"types", "confidences", "impacts", "statuses", "campaigns",
                 "tags", "sources", "references"} : db[t] = before[t]
    /\ db.indicators = RowsWithout(before, request.id)
    /\ Len(db.indicators) = Len(before.indicators) - 1

\* An indicator with campaigns, tags and references was deleted while
\* another indicator sharing a tag and a reference with it stays.
C17_Witness ==
  /\ Answers("delete_indicator")
  /\ response.status = 204
  /\ \E i \in DOMAIN before.indicators :
       /\ before.indicators[i].id = request.id
       /\ before.indicators[i].campaigns # <<>>
       /\ before.indicators[i].tags # <<>>
       /\ before.indicators[i].references # <<>>
       /\ \E j \in DOMAIN db.indicators :
            /\ db.indicators[j].tags # <<>>
            /\ db.indicators[j].references # <<>>
            /\ db.indicators[j].tags[1] = before.indicators[i].tags[1]
            /\ db.indicators[j].references[1] = before.indicators[i].references[1]

\* The body key that carries each attribute or relation of an indicator.
KeyOf ==
  [campaigns |-> "campaigns", case_sensitive |-> "case_sensitive",
   confidence |-> "confidence", impact |-> "impact", references |-> "references",
   status |-> "status", substring |-> "substring", tags |-> "tags",
   user |-> "username"]

\* The attributes no body key carries.
FixedFields == {"id", "type", "value", "created_time"}

IndicatorOf(d, id) == d.indicators[CHOOSE i \in DOMAIN d.indicators : d.indicators[i].id = id]

\* C18: a successful update of an indicator changes only the attributes and
\* relations whose keys are in the body: every attribute and relation of
\* that indicator whose key is absent, every other indicator and every
\* lookup row is unchanged (the modification time aside).
C18_UpdateFrame ==
  (Answers("update_indicator") /\ response.status = 200) =>
    /\ DOMAIN db.indicators = DOMAIN before.indicators
    /\ \A i \in DOMAIN db.indicators :
         before.indicators[i].id # request.id => db.indicators[i] = before.indicators[i]
    /\ \A f \in DOMAIN KeyOf :
         KeyOf[f] \notin request.data.keys
           => IndicatorOf(db, request.id)[f] = IndicatorOf(before, request.id)[f]
    /\ \A f \in FixedFields :
         IndicatorOf(db, request.id)[f] = IndicatorOf(before, request.id)[f]
    /\ \A t \in {"types", "confidences", "impacts", "statuses", "campaigns",
                 "tags", "sources", "references"} : db[t] = before[t]

\* An update with only the tags key changed the tags of an indicator that
\* has campaigns and references, while another indicator exists.
C18_Witness ==
  /\ Answers("update_indicator")
  /\ response.status = 200
  /\ request.data.keys = {"tags"}
  /\ Len(db.indicators) > 1
  /\ IndicatorOf(db, request.id).tags # IndicatorOf(before, request.id).tags
  /\ IndicatorOf(db, request.id).campaigns # <<>>
  /\ IndicatorOf(db, request.id).references # <<>>

\* C19: an update naming a campaign or a tag that does not exist answers
\* 404 and leaves the indicator's campaigns and tags as they were.
C19_UnknownRelation404 ==
  (/\ Answers("update_indicator")
   /\ get_indicator(before, request.id) # 0
   /\ \E f \in {"campaigns", "tags"} :
        /\ f \in request.data.keys
        /\ \E k \in DOMAIN request.data[f] : First(before[f], request.data[f][k]) = 0)
    => (response.status = 404 /\ db = before)

\* C20: no two persisted intel references share the same reference and
\* source, whatever requests created or changed them; and a create of an
\* intel reference whose pair exists answers 409 and adds no row.
C20_ReferencePairUnique ==
  /\ \A i, j \in DOMAIN db.references :
       (i # j /\ db.references[i] # Deleted /\ db.references[j] # Deleted)
         => ~ (/\ db.references[i].reference = db.references[j].reference
               /\ db.references[i].source = db.references[j].source)
  /\ (/\ Answers("create_intel_reference")
      /\ {"reference", "source", "username"} \subseteq request.data.keys
      /\ \E i \in DOMAIN before.references :
           /\ before.references[i] # Deleted
           /\ before.references[i].reference = request.data.reference
           /\ before.sources[before.references[i].source] = request.data.source)
       => (response.status = 409 /\ db = before)

\* A create of an existing pair was answered 409 in a store that an
\* earlier create of an intel reference had extended.
C20_Witness ==
  /\ Answers("create_intel_reference")
  /\ response.status = 409
  /\ existing_reference(before, request.data.reference,
                        First(before.sources, request.data.source))
  /\ Len(db.references) > 2

\* The reference text and the source name an update of an intel reference
\* asks the row to have: the ones in the body, else the ones the row has.
AskedReference ==
  IF "reference" \in request.data.keys THEN request.data.reference
  ELSE before.references[request.id].reference

AskedSource ==
  IF "source" \in request.data.keys THEN request.data.source
  ELSE before.sources[before.references[request.id].source]

\* A live intel reference of the store before the request has that pair.
PairPersisted(reference, source) ==
  \E i \in DOMAIN before.references :
    /\ before.references[i] # Deleted
    /\ before.references[i].reference = reference
    /\ before.sources[before.references[i].source] = source

UpdateReferenceAsked ==
  /\ Answers("update_intel_reference")
  /\ get_reference(before, request.id)
  /\ request.data.keys \cap {"reference", "source"} # {}

\* C21: an update of an intel reference whose resulting reference and
\* source are those of a persisted intel reference, the updated one
\* included, answers 409 and leaves every intel reference unchanged.
C21_UpdateDuplicate ==
  (UpdateReferenceAsked /\ PairPersisted(AskedReference, AskedSource))
    => (response.status = 409 /\ db = before)

\* An update asking for the pair the row itself has was answered 409.
C21_Witness ==
  /\ UpdateReferenceAsked
  /\ request.data.keys = {"reference", "source"}
  /\ before.references[request.id].reference = request.data.reference
  /\ before.sources[before.references[request.id].source] = request.data.source
  /\ response.status = 409

\* C22: a create of an intel reference never creates an intel source: when
\* the named source does not exist it answers 400 'Intel source not found'
\* and persists no intel reference and no intel source; an update of an
\* intel reference naming a source that does not exist answers 404 and
\* changes nothing.
C22_SourceNeverCreated ==
  /\ Answers("create_intel_reference") => db.sources = before.sources
  /\ (/\ Answers("create_intel_reference")
      /\ {"reference", "source", "username"} \subseteq request.data.keys
      /\ First(before.sources, request.data.source) = 0)
       => (response.status = 400 /\ response.message = "source" /\ db = before)
  /\ (/\ Answers("update_intel_reference")
      /\ get_reference(before, request.id)
      /\ "source" \in request.data.keys
      /\ First(before.sources, request.data.source) = 0)
       => (response.status = 404 /\ response.message = "source" /\ db = before)

\* A create naming a source that does not exist, complete otherwise and
\* by a user who exists, was answered 400.
C22_Witness ==
  /\ Answers("create_intel_reference")
  /\ {"reference", "source", "username"} \subseteq request.data.keys
  /\ First(before.sources, request.data.source) = 0
  /\ UserByUsername(request.data.username) # NoKey
  /\ response.status = 400

\* The records of the answer are in strictly ascending order of id.
StrictlyAscending ==
  \A k \in DOMAIN response.data :
    k > 1 => response.data[k - 1].id < response.data[k].id

\* C23: a list-mode read returns, for every filter combination, the
\* matching indicators as records in strictly ascending order of id, so
\* none appears more than once.
C23_ListOrdered ==
  (ReadAnswered /\ "count" \notin DOMAIN request.args) =>
    (response.status = 200 /\ StrictlyAscending)

DateKeys == {"created_after", "created_before", "modified_after", "modified_before"}

\* The request carries a date key whose value is not a date.
UnparsedDate ==
  \E n \in DOMAIN request.args \cap DateKeys : ~ parse(Text(request.args[n])).ok

\* The clause the handler builds for a date key holds the sentinel: the
\* maximum date for the after keys, the minimum date for the before keys.
SentinelClause(n) ==
  \E k \in DOMAIN plan_of(request.args).filters :
    plan_of(request.args).filters[k] =
      Clause(IF n \in {"created_after", "modified_after"} THEN "after" ELSE "before",
             IF n \in {"created_after", "created_before"}
               THEN "Indicator.created_time" ELSE "Indicator.modified_time",
             "", <<>>,
             IF n \in {"created_after", "modified_after"} THEN DateMax ELSE DateMin)

\* C24: a date key whose value cannot be parsed never produces an error:
\* the request is answered 200 (unless its other keys join a table
\* twice), the filter is evaluated with the sentinel date, and no
\* indicator satisfies it.
C24_LenientDates ==
  (ReadAnswered /\ UnparsedDate) =>
    /\ \A n \in DOMAIN request.args \cap DateKeys :
         ~ parse(Text(request.args[n])).ok => SentinelClause(n)
    /\ ~ not_unique_table(plan_of(request.args).join) =>
         /\ response.status = 200
         /\ response.data = <<>>
         /\ response.count = 0

\* A date that is not one was the only filter of a list request over a
\* store with two indicators, and the answer was the empty list.
C24_Witness ==
  /\ ReadAnswered
  /\ DOMAIN request.args \in {{n} : n \in DateKeys}
  /\ UnparsedDate
  /\ Len(db.indicators) = 2
  /\ response.status = 200
  /\ response.data = <<>>

\* The request's arguments without the keys the handler does not know.
Known(args) == [n \in DOMAIN args \cap (Recognized \cup {"count"}) |-> args[n]]

\* C25: keys outside the recognized filter set take no part in planning:
\* a request and the same request without its unrecognized keys have the
\* same joins, the same predicates and the same answer.
C25_UnknownIgnored ==
  (ReadAnswered /\ Known(request.args) # request.args) =>
    /\ plan_of(request.args) = plan_of(Known(request.args))
    /\ response = read_indicators(db, Known(request.args))

\* A request with an unrecognized key and a recognized one was answered
\* with some, not all, of the indicators of the store.
C25_Witness ==
  /\ ReadAnswered
  /\ Known(request.args) # request.args
  /\ Known(request.args) # NoArgs
  /\ response.status = 200
  /\ response.data # <<>>
  /\ Len(response.data) < Len(db.indicators)

\* C26: a single create or an update that ends with an error response
\* leaves the store as it was before the request: no lookup row staged
\* earlier in the request and no attribute assigned before the failing
\* check is persisted.
C26_ErrorLeavesStore ==
  /\ (Answers("create_indicator") /\ response.status # 201) => db = before
  /\ (Answers("update_indicator") /\ response.status # 200) => db = before

\* An update that assigns another case_sensitive to the indicator and
\* then fails on its status was answered 404.
C26_Witness ==
  /\ Answers("update_indicator")
  /\ get_indicator(before, request.id) # 0
  /\ "case_sensitive" \in request.data.keys
  /\ request.data.case_sensitive # IndicatorOf(before, request.id).case_sensitive
  /\ "status" \in request.data.keys
  /\ response.status = 404

\* C27: within one bulk request two reference entries that differ in
\* source or in reference text never resolve to the same intel reference:
\* every indicator the request persisted is linked to references carrying
\* exactly the source and the reference text its item named.
C27_ReferenceCachePairs ==
  (BulkAnswered /\ response.status = 204) =>
    LET rows == NewIndicators(before, db)
        kept == Survivors(KnownPairs(before), request.indicators)
    IN \A k \in DOMAIN rows :
         /\ k \in DOMAIN kept
         /\ Linked(db, rows[k]).references = Named(kept[k]).references

\* The key whose values the references of an indicator are compared with.
ExcludedOf(name) == IF name = "not_sources" THEN "sources" ELSE "users"

\* C28: not_sources (and likewise not_users) alone returns, each once,
\* exactly the indicators that have at least one reference whose source
\* (user) differs from every listed value; an indicator without
\* references is not returned.
C28_NotSourcesUsers ==
  \A name \in {"not_sources", "not_users"} :
    (ReadAnswered /\ DOMAIN request.args = {name}) =>
      /\ response.status = 200
      /\ Len(response.data) = Cardinality(ids_of(response))
      /\ ids_of(response) =
           {db.indicators[i].id : i \in {j \in DOMAIN db.indicators :
              RelatedTo(ExcludedOf(name), db.indicators[j]) \ Listed(request.args[name]) # {}}}

\* not_sources=ab over an indicator with references from ab and from a,
\* which is returned, and an indicator without references, which is not.
C28_Witness ==
  /\ ReadAnswered
  /\ DOMAIN request.args = {"not_sources"}
  /\ request.args["not_sources"] = <<"ab">>
  /\ Len(db.indicators) = 2
  /\ RelatedTo("sources", db.indicators[1]) = {"ab", "a"}
  /\ db.indicators[2].references = <<>>
  /\ ids_of(response) = {db.indicators[1].id}

\* No two indicators of a store have the same type and values that are
\* the same under the comparison mode of one of them.
Unique(d) ==
  \A i, j \in DOMAIN d.indicators :
    (i # j /\ d.indicators[i].type = d.indicators[j].type)
      => ~ SameUnderMode(d.indicators[i].case_sensitive,
                         d.indicators[i].value, d.indicators[j].value)

\* C29: an update of an indicator preserves the uniqueness of type and
\* value: when no two indicators shared a value before a successful
\* update, none do after it, a change of case_sensitive included.
C29_UpdateKeepsUnique ==
  (Answers("update_indicator") /\ response.status = 200 /\ Unique(before))
    => Unique(db)

Relations == {"campaigns", "tags", "references"}

\* C30: a successful update whose body carries campaigns, tags or
\* references as an empty list leaves that relation of the indicator
\* unchanged, and no successful update leaves a relation empty that was
\* not empty before.
C30_EmptyListKeeps ==
  (Answers("update_indicator") /\ response.status = 200) =>
    \A f \in Relations :
      /\ (f \in request.data.keys /\ request.data[f] = <<>>)
           => IndicatorOf(db, request.id)[f] = IndicatorOf(before, request.id)[f]
      /\ IndicatorOf(before, request.id)[f] # <<>> => IndicatorOf(db, request.id)[f] # <<>>

\* An update with tags as an empty list on an indicator that has tags was
\* answered 200.
C30_Witness ==
  /\ Answers("update_indicator")
  /\ response.status = 200
  /\ "tags" \in request.data.keys
  /\ request.data.tags = <<>>
  /\ IndicatorOf(before, request.id).tags # <<>>
  /\ IndicatorOf(db, request.id).tags = IndicatorOf(before, request.id).tags

====
